---- MODULE Spec2Model ----
(***************************************************************************)
(* Verification model of the ai-linux-shell safety pipeline:               *)
(*   executor/safety_checker.py   SafetyChecker.check_command              *)
(*   executor/command_runner.py   CommandRunner.execute                    *)
(*   safety/rollback_manager.py   RollbackManager                          *)
(*   aishell.py                   main (the per-command loop)              *)
(* Commands are TLA+ strings; the character-level operators below do what  *)
(* Python's str, re and shlex do on them.                                  *)
(***************************************************************************)
EXTENDS Integers, Sequences, FiniteSets, TLC

(***************************************************************************)
(* Strings                                                                 *)
(***************************************************************************)
Ch(s, i) == SubSeq(s, i, i)

UpperLetters == "ABCDEFGHIJKLMNOPQRSTUVWXYZ"
LowerLetters == "abcdefghijklmnopqrstuvwxyz"

IsLetter(c) == \E i \in 1..26 : Ch(LowerLetters, i) = c \/ Ch(UpperLetters, i) = c

LowerChar(c) ==
    IF \E i \in 1..26 : Ch(UpperLetters, i) = c
    THEN Ch(LowerLetters, CHOOSE i \in 1..26 : Ch(UpperLetters, i) = c)
    ELSE c

RECURSIVE LowerFrom(_, _)
LowerFrom(s, i) == IF i > Len(s) THEN "" ELSE LowerChar(Ch(s, i)) \o LowerFrom(s, i + 1)

\* str.lower()
Lower(s) == LowerFrom(s, 1)

\* the whitespace of str.strip(), of \s and of shlex that occurs in commands
IsSpace(c) == c \in {" ", "\t", "\n"}

\* `sub in s`
Contains(s, sub) == \E i \in 1..(Len(s) - Len(sub) + 1) : SubSeq(s, i, i + Len(sub) - 1) = sub

FirstNonSpace(s) == CHOOSE i \in 1..Len(s) : ~IsSpace(Ch(s, i)) /\ \A j \in 1..(i - 1) : IsSpace(Ch(s, j))
LastNonSpace(s) == CHOOSE i \in 1..Len(s) : ~IsSpace(Ch(s, i)) /\ \A j \in (i + 1)..Len(s) : IsSpace(Ch(s, j))

\* str.strip()
Strip(s) ==
    IF \A i \in 1..Len(s) : IsSpace(Ch(s, i)) THEN ""
    ELSE SubSeq(s, FirstNonSpace(s), LastNonSpace(s))

(***************************************************************************)
(* re.search(pattern, s, re.IGNORECASE) for the pattern shapes the source  *)
(* uses.  A pattern is a sequence of items:                                *)
(*   Lit(x) a literal, WS1 \s+, WS0 \s*, ANY .*, AZ [a-z],                 *)
(*   ALT(S) (x|y|z), EOL $                                                 *)
(***************************************************************************)
\* IGNORECASE: literals are kept lowered and matched against the lowered subject
Lit(x) == [t |-> "lit", v |-> {Lower(x)}]
ALT(S) == [t |-> "lit", v |-> {Lower(y) : y \in S}]
WS1 == [t |-> "ws1", v |-> {}]
WS0 == [t |-> "ws0", v |-> {}]
ANY == [t |-> "any", v |-> {}]
AZ == [t |-> "az", v |-> {}]
EOL == [t |-> "eol", v |-> {}]
\* \b, \S+ and [0-7]
WB == [t |-> "wb", v |-> {}]
NONSP1 == [t |-> "nonsp1", v |-> {}]
OCT == [t |-> "oct", v |-> {}]

\* \w
IsWordChar(c) == IsLetter(c) \/ c \in {"0", "1", "2", "3", "4", "5", "6", "7", "8", "9", "_"}

\* positions after one item matched at position p of s (s already lowered)
ItemEnds(item, s, p) ==
    LET n == Len(s) IN
    CASE item.t = "lit" ->
           {p + Len(x) : x \in {y \in item.v : p + Len(y) - 1 <= n /\ SubSeq(s, p, p + Len(y) - 1) = y}}
      [] item.t = "ws1" -> {q \in (p + 1)..(n + 1) : \A i \in p..(q - 1) : IsSpace(Ch(s, i))}
      [] item.t = "ws0" -> {q \in p..(n + 1) : \A i \in p..(q - 1) : IsSpace(Ch(s, i))}
      [] item.t = "any" -> {q \in p..(n + 1) : \A i \in p..(q - 1) : Ch(s, i) # "\n"}
      [] item.t = "az" -> IF p <= n /\ IsLetter(Ch(s, p)) THEN {p + 1} ELSE {}
      [] item.t = "eol" -> IF p = n + 1 \/ (p = n /\ Ch(s, p) = "\n") THEN {p} ELSE {}
      [] item.t = "wb" ->
           IF (p > 1 /\ IsWordChar(Ch(s, p - 1))) # (p <= n /\ IsWordChar(Ch(s, p))) THEN {p} ELSE {}
      [] item.t = "nonsp1" -> {q \in (p + 1)..(n + 1) : \A i \in p..(q - 1) : ~IsSpace(Ch(s, i))}
      [] item.t = "oct" ->
           IF p <= n /\ Ch(s, p) \in {"0", "1", "2", "3", "4", "5", "6", "7"} THEN {p + 1} ELSE {}

RECURSIVE MatchEnds(_, _, _, _)
MatchEnds(re, k, s, P) ==
    IF k > Len(re) \/ P = {} THEN P
    ELSE MatchEnds(re, k + 1, s, UNION {ItemEnds(re[k], s, p) : p \in P})

\* re.search without re.IGNORECASE
ReSearchCaseSensitive(re, s) == \E start \in 1..(Len(s) + 1) : MatchEnds(re, 1, s, {start}) # {}

ReSearch(re, s) ==
    LET ls == Lower(s) IN \E start \in 1..(Len(s) + 1) : MatchEnds(re, 1, ls, {start}) # {}

(***************************************************************************)
(* shlex.split(s): POSIX mode, whitespace_split, no comments.              *)
(* Result: [ok |-> TRUE, words |-> tokens] or [ok |-> FALSE] for the       *)
(* ValueError of an unclosed quotation or a trailing escape.               *)
(* st is the lexer state: " " between tokens, "a" in a word, "'" or "\""   *)
(* in quotes, "\\" after an escape (esc is the state to return to).        *)
(***************************************************************************)
RECURSIVE ShlexFrom(_, _, _, _, _, _, _)
ShlexFrom(s, i, st, esc, tok, has, words) ==
    IF i > Len(s) THEN
        IF st \in {"'", "\"", "\\"} THEN [ok |-> FALSE, words |-> <<>>]
        ELSE [ok |-> TRUE, words |-> IF has THEN Append(words, tok) ELSE words]
    ELSE
    LET c == Ch(s, i) IN
    CASE st = " " ->
           IF IsSpace(c) THEN ShlexFrom(s, i + 1, " ", esc, "", FALSE, words)
           ELSE IF c = "\\" THEN ShlexFrom(s, i + 1, "\\", "a", "", TRUE, words)
           ELSE IF c \in {"'", "\""} THEN ShlexFrom(s, i + 1, c, esc, "", TRUE, words)
           ELSE ShlexFrom(s, i + 1, "a", esc, c, TRUE, words)
      [] st = "a" ->
           IF IsSpace(c) THEN ShlexFrom(s, i + 1, " ", esc, "", FALSE, Append(words, tok))
           ELSE IF c \in {"'", "\""} THEN ShlexFrom(s, i + 1, c, esc, tok, TRUE, words)
           ELSE IF c = "\\" THEN ShlexFrom(s, i + 1, "\\", "a", tok, TRUE, words)
           ELSE ShlexFrom(s, i + 1, "a", esc, tok \o c, TRUE, words)
      [] st \in {"'", "\""} ->
           IF c = st THEN ShlexFrom(s, i + 1, "a", esc, tok, TRUE, words)
           ELSE IF c = "\\" /\ st = "\"" THEN ShlexFrom(s, i + 1, "\\", st, tok, TRUE, words)
           ELSE ShlexFrom(s, i + 1, st, esc, tok \o c, TRUE, words)
      [] st = "\\" ->
           IF esc = "\"" /\ c # "\\" /\ c # "\""
           THEN ShlexFrom(s, i + 1, esc, esc, (tok \o "\\") \o c, TRUE, words)
           ELSE ShlexFrom(s, i + 1, esc, esc, tok \o c, TRUE, words)

ShlexSplit(s) == ShlexFrom(s, 1, " ", "a", "", FALSE, <<>>)

(***************************************************************************)
(* SafetyChecker: results, configuration, tables                           *)
(***************************************************************************)
LOW == "low"
MEDIUM == "medium"
HIGH == "high"
CRITICAL == "critical"
RiskLevel == {LOW, MEDIUM, HIGH, CRITICAL}

\* SafetyResult; the optional list fields default to None, which every
\* reader treats like the empty list: both are <<>> here
SafetyResult(is_safe, risk_level, reason, suggestions, blocked_patterns) ==
    [is_safe |-> is_safe, risk_level |-> risk_level, reason |-> reason,
     suggestions |-> suggestions, blocked_patterns |-> blocked_patterns]

\* an exception leaving a call instead of a result
Raised(e) == [exc |-> e]
IsRaise(r) == "exc" \in DOMAIN r

_get_default_config ==
    [block_high_risk |-> TRUE, block_critical |-> TRUE, allow_sudo |-> FALSE,
     allow_destructive |-> FALSE, allow_network |-> TRUE, max_command_length |-> 1000,
     check_file_paths |-> TRUE, warn_on_wildcards |-> TRUE]

\* SafetyChecker.__init__: `config or default`; None and {} are falsy
NoConfig == << >>
SafetyChecker_init(config) == IF DOMAIN config = {} THEN _get_default_config ELSE config

\* self.config[key] raises KeyError when the key is absent
HasKey(config, key) == key \in DOMAIN config

Pat(src, re) == [pat |-> src, re |-> re]
RmRf == <<Lit("rm"), WS1, ANY, Lit("-rf"), WS0>>
RmAny == <<Lit("rm"), WS1, ANY>>

_load_dangerous_patterns == <<
    Pat("rm\\s+.*-rf\\s*/\\s*$", RmRf \o <<Lit("/"), WS0, EOL>>),
    Pat("rm\\s+.*-rf\\s*/.*", RmRf \o <<Lit("/"), ANY>>),
    Pat("rm\\s+.*-rf\\s*\\$HOME", RmRf \o <<Lit("$HOME")>>),
    Pat("rm\\s+.*-rf\\s*~", RmRf \o <<Lit("~")>>),
    Pat("rm\\s+.*-rf\\s*\\.", RmRf \o <<Lit(".")>>),
    Pat("dd\\s+.*of=/dev/sd[a-z]", <<Lit("dd"), WS1, ANY, Lit("of=/dev/sd"), AZ>>),
    Pat("dd\\s+.*of=/dev/hd[a-z]", <<Lit("dd"), WS1, ANY, Lit("of=/dev/hd"), AZ>>),
    Pat("dd\\s+.*of=/dev/nvme", <<Lit("dd"), WS1, ANY, Lit("of=/dev/nvme")>>),
    Pat("mkfs\\.", <<Lit("mkfs.")>>),
    Pat("format\\s+/dev/", <<Lit("format"), WS1, Lit("/dev/")>>),
    Pat("fdisk\\s+/dev/", <<Lit("fdisk"), WS1, Lit("/dev/")>>),
    Pat("parted\\s+/dev/", <<Lit("parted"), WS1, Lit("/dev/")>>),
    Pat("rm\\s+.*(/etc/passwd|/etc/shadow|/etc/group)",
        RmAny \o <<ALT({"/etc/passwd", "/etc/shadow", "/etc/group"})>>),
    Pat("rm\\s+.*/boot/", RmAny \o <<Lit("/boot/")>>),
    Pat("rm\\s+.*/usr/", RmAny \o <<Lit("/usr/")>>),
    Pat("rm\\s+.*/var/", RmAny \o <<Lit("/var/")>>),
    Pat("rm\\s+.*/lib/", RmAny \o <<Lit("/lib/")>>),
    Pat("rm\\s+.*/lib64/", RmAny \o <<Lit("/lib64/")>>),
    Pat("curl\\s+.*\\|\\s*sh", <<Lit("curl"), WS1, ANY, Lit("|"), WS0, Lit("sh")>>),
    Pat("wget\\s+.*\\|\\s*sh", <<Lit("wget"), WS1, ANY, Lit("|"), WS0, Lit("sh")>>),
    Pat("curl\\s+.*\\|\\s*bash", <<Lit("curl"), WS1, ANY, Lit("|"), WS0, Lit("bash")>>),
    Pat("wget\\s+.*\\|\\s*bash", <<Lit("wget"), WS1, ANY, Lit("|"), WS0, Lit("bash")>>),
    Pat("nc\\s+.*-l.*-e", <<Lit("nc"), WS1, ANY, Lit("-l"), ANY, Lit("-e")>>),
    Pat("socat\\s+.*EXEC", <<Lit("socat"), WS1, ANY, Lit("EXEC")>>),
    Pat("bash\\s+<\\s*\\(", <<Lit("bash"), WS1, Lit("<"), WS0, Lit("(")>>),
    Pat("shutdown\\s+.*now", <<Lit("shutdown"), WS1, ANY, Lit("now")>>),
    Pat("reboot\\s*$", <<Lit("reboot"), WS0, EOL>>),
    Pat("halt\\s*$", <<Lit("halt"), WS0, EOL>>),
    Pat("poweroff\\s*$", <<Lit("poweroff"), WS0, EOL>>),
    Pat("init\\s+0", <<Lit("init"), WS1, Lit("0")>>),
    Pat("init\\s+6", <<Lit("init"), WS1, Lit("6")>>),
    Pat("kill\\s+-9\\s+1\\s*$", <<Lit("kill"), WS1, Lit("-9"), WS1, Lit("1"), WS0, EOL>>),
    Pat("killall\\s+-9\\s+init", <<Lit("killall"), WS1, Lit("-9"), WS1, Lit("init")>>),
    Pat("killall\\s+-9\\s+systemd", <<Lit("killall"), WS1, Lit("-9"), WS1, Lit("systemd")>>),
    Pat("pkill\\s+-9\\s+init", <<Lit("pkill"), WS1, Lit("-9"), WS1, Lit("init")>>),
    Pat("chmod\\s+.*777\\s+/", <<Lit("chmod"), WS1, ANY, Lit("777"), WS1, Lit("/")>>),
    Pat("chmod\\s+.*4755", <<Lit("chmod"), WS1, ANY, Lit("4755")>>),
    Pat("chmod\\s+.*6755", <<Lit("chmod"), WS1, ANY, Lit("6755")>>),
    Pat("chown\\s+.*root:root\\s+/", <<Lit("chown"), WS1, ANY, Lit("root:root"), WS1, Lit("/")>>),
    Pat(":\\(\\)\\{.*\\}", <<Lit(":(){"), ANY, Lit("}")>>),
    Pat("while\\s+true.*do.*done", <<Lit("while"), WS1, Lit("true"), ANY, Lit("do"), ANY, Lit("done")>>),
    Pat("yes\\s+.*\\|\\s*.*", <<Lit("yes"), WS1, ANY, Lit("|"), WS0, ANY>>),
    Pat(">\\s*/etc/passwd", <<Lit(">"), WS0, Lit("/etc/passwd")>>),
    Pat(">\\s*/etc/shadow", <<Lit(">"), WS0, Lit("/etc/shadow")>>),
    Pat(">\\s*/etc/group", <<Lit(">"), WS0, Lit("/etc/group")>>),
    Pat(">\\s*/boot/", <<Lit(">"), WS0, Lit("/boot/")>>) >>

_load_privilege_commands ==
    {"sudo", "su", "mount", "umount", "fdisk", "parted", "mkfs",
     "fsck", "iptables", "systemctl", "service", "chkconfig",
     "useradd", "userdel", "usermod", "groupadd", "groupdel",
     "passwd", "chpasswd", "visudo", "crontab", "at", "batch"}

_load_destructive_commands ==
    {"rm", "rmdir", "mv", "dd", "shred", "truncate", "wipe",
     "chmod", "chown", "chgrp", "unlink", "mkfs", "format",
     "fdisk", "parted", "gparted", "wipefs"}

_load_network_commands ==
    {"curl", "wget", "nc", "netcat", "socat", "ssh", "scp", "rsync",
     "ftp", "sftp", "telnet", "nmap", "masscan", "tcpdump", "wireshark"}

(***************************************************************************)
(* SafetyChecker: the stages of check_command                              *)
(***************************************************************************)
Passed(reason) == SafetyResult(TRUE, LOW, reason, <<>>, <<>>)

RECURSIVE PatsOf(_, _)
PatsOf(ps, i) == IF i > Len(ps) THEN <<>> ELSE <<ps[i].pat>> \o PatsOf(ps, i + 1)

\* mutant: the patterns are searched without re.IGNORECASE
_check_dangerous_patterns_case_sensitive(command) ==
    LET Hit(p) == ReSearchCaseSensitive(p.re, command)
        matched_patterns == PatsOf(SelectSeq(_load_dangerous_patterns, Hit), 1)
    IN  IF matched_patterns # <<>>
        THEN SafetyResult(FALSE, CRITICAL, "Command matches dangerous patterns", <<>>, matched_patterns)
        ELSE Passed("No dangerous patterns found")

_check_dangerous_patterns(command) ==
    LET Hit(p) == ReSearch(p.re, command)
        matched_patterns == PatsOf(SelectSeq(_load_dangerous_patterns, Hit), 1)
    IN  IF matched_patterns # <<>>
        THEN SafetyResult(FALSE, CRITICAL, "Command matches dangerous patterns", <<>>, matched_patterns)
        ELSE Passed("No dangerous patterns found")

\* mutant: only sudo is looked at, the privileged-command table is not consulted
_check_privilege_commands_sudo_only(command, config) ==
    LET sp == ShlexSplit(Lower(command)) IN
    IF ~sp.ok THEN Raised("ValueError")
    ELSE IF sp.words = <<>> THEN Passed("")
    ELSE IF sp.words[1] = "sudo" THEN
             IF ~HasKey(config, "allow_sudo") THEN Raised("KeyError")
             ELSE IF ~config["allow_sudo"]
             THEN SafetyResult(FALSE, HIGH, "sudo commands not allowed",
                               <<"Remove sudo and run command as regular user">>, <<>>)
             ELSE SafetyResult(TRUE, MEDIUM, "sudo command allowed by configuration", <<>>, <<>>)
         ELSE Passed("")

_check_privilege_commands(command, config) ==
    LET sp == ShlexSplit(Lower(command)) IN
    IF ~sp.ok THEN Raised("ValueError")
    ELSE IF sp.words = <<>> THEN Passed("")
    ELSE LET first_word == sp.words[1] IN
         IF first_word = "sudo" THEN
             IF ~HasKey(config, "allow_sudo") THEN Raised("KeyError")
             ELSE IF ~config["allow_sudo"]
             THEN SafetyResult(FALSE, HIGH, "sudo commands not allowed",
                               <<"Remove sudo and run command as regular user">>, <<>>)
             ELSE SafetyResult(TRUE, MEDIUM, "sudo command allowed by configuration", <<>>, <<>>)
         ELSE IF first_word \in _load_privilege_commands
         THEN SafetyResult(FALSE, HIGH, ("Command '" \o first_word) \o "' requires elevated privileges",
                           <<"Consider running without special privileges">>, <<>>)
         ELSE Passed("")

\* mutant: rm is treated like every other destructive command
_check_destructive_commands_rm_like_others(command, config) ==
    LET sp == ShlexSplit(Lower(command)) IN
    IF ~sp.ok THEN Raised("ValueError")
    ELSE IF sp.words = <<>> THEN Passed("")
    ELSE LET first_word == sp.words[1] IN
         IF first_word \in _load_destructive_commands THEN
             IF ~HasKey(config, "allow_destructive") THEN Raised("KeyError")
             ELSE IF ~config["allow_destructive"]
             THEN SafetyResult(FALSE, HIGH, ("Destructive command '" \o first_word) \o "' not allowed",
                               <<"Consider using safer alternatives">>, <<>>)
             ELSE Passed("")
         ELSE Passed("")

_check_destructive_commands(command, config) ==
    LET sp == ShlexSplit(Lower(command)) IN
    IF ~sp.ok THEN Raised("ValueError")
    ELSE IF sp.words = <<>> THEN Passed("")
    ELSE LET first_word == sp.words[1] IN
         IF first_word \in _load_destructive_commands THEN
             IF ~HasKey(config, "allow_destructive") THEN Raised("KeyError")
             ELSE IF ~config["allow_destructive"] THEN
                 IF first_word = "rm" THEN
                     IF /\ Contains(command, "-rf") \/ Contains(command, "-fr")
                        /\ \E path \in {"/", "~", "$HOME", "*"} : Contains(command, path)
                     THEN SafetyResult(FALSE, CRITICAL,
                                       "Potentially destructive rm command with dangerous paths",
                                       <<"Be more specific with file paths", "Use trash command instead">>, <<>>)
                     ELSE SafetyResult(TRUE, MEDIUM, "rm command detected but appears safe", <<>>, <<>>)
                 ELSE SafetyResult(FALSE, HIGH, ("Destructive command '" \o first_word) \o "' not allowed",
                                   <<"Consider using safer alternatives">>, <<>>)
             ELSE Passed("")
         ELSE Passed("")

_check_network_commands(command, config) ==
    LET sp == ShlexSplit(Lower(command)) IN
    IF ~sp.ok THEN Raised("ValueError")
    ELSE IF sp.words = <<>> THEN Passed("")
    ELSE LET first_word == sp.words[1] IN
         IF first_word \in _load_network_commands THEN
             IF ~HasKey(config, "allow_network") THEN Raised("KeyError")
             ELSE IF ~config["allow_network"]
             THEN SafetyResult(FALSE, MEDIUM, ("Network command '" \o first_word) \o "' not allowed",
                               <<"Network operations are disabled">>, <<>>)
             ELSE IF /\ Contains(command, "|")
                     /\ \E shell \in {"sh", "bash", "zsh"} : Contains(command, shell)
             THEN SafetyResult(FALSE, CRITICAL, "Network command piped to shell - potential security risk",
                               <<"Download to file first, then inspect before executing">>, <<>>)
             ELSE Passed("")
         ELSE Passed("")

critical_paths ==
    <<"/etc/", "/boot/", "/usr/", "/lib/", "/lib64/", "/bin/", "/sbin/",
      "/dev/", "/proc/", "/sys/", "/var/log/", "/var/lib/">>

\* mutant: the path stage rejects without saying why
_check_file_paths_no_reason(command, config) ==
    IF ~HasKey(config, "check_file_paths") THEN Raised("KeyError")
    ELSE IF ~config["check_file_paths"] THEN Passed("")
    ELSE LET hits == {i \in 1..Len(critical_paths) : Contains(command, critical_paths[i])} IN
         IF /\ hits # {}
            /\ \E op \in {"rm", "mv", "cp", "dd", ">"} : Contains(command, op)
         THEN SafetyResult(FALSE, HIGH, "", <<"Avoid modifying system directories">>, <<>>)
         ELSE Passed("")

_check_file_paths(command, config) ==
    IF ~HasKey(config, "check_file_paths") THEN Raised("KeyError")
    ELSE IF ~config["check_file_paths"] THEN Passed("")
    ELSE LET hits == {i \in 1..Len(critical_paths) : Contains(command, critical_paths[i])} IN
         IF /\ hits # {}
            /\ \E op \in {"rm", "mv", "cp", "dd", ">"} : Contains(command, op)
         THEN LET path == critical_paths[CHOOSE i \in hits : \A j \in hits : i <= j] IN
              SafetyResult(FALSE, HIGH, "Operation on critical system path: " \o path,
                           <<"Avoid modifying system directories">>, <<>>)
         ELSE Passed("")

dangerous_wildcards == <<
    <<Lit("rm"), WS1, ANY, Lit("*")>>,
    <<Lit("rm"), WS1, ANY, Lit("?")>>,
    <<Lit("chmod"), WS1, ANY, Lit("*")>>,
    <<Lit("chown"), WS1, ANY, Lit("*")>>,
    <<Lit("mv"), WS1, ANY, Lit("*"), ANY, Lit("/")>> >>

_check_wildcards(command, config) ==
    IF ~HasKey(config, "warn_on_wildcards") THEN Raised("KeyError")
    ELSE IF ~config["warn_on_wildcards"] THEN Passed("")
    ELSE IF \E i \in 1..Len(dangerous_wildcards) : ReSearch(dangerous_wildcards[i], command)
         THEN SafetyResult(TRUE, MEDIUM, "Command uses wildcards - be careful",
                           <<"Double-check which files will be affected">>, <<>>)
         ELSE Passed("")

\* a stage decides the result when it raises or when its check fails
Decides(r) == IsRaise(r) \/ ~r.is_safe

\* mutant: the privilege stage is called before the dangerous-pattern stage
check_command_privilege_first(cmd, config) ==
    IF cmd = "" \/ Strip(cmd) = ""
    THEN SafetyResult(FALSE, MEDIUM, "Empty command provided", <<>>, <<>>)
    ELSE
    LET command == Strip(cmd) IN
    IF ~HasKey(config, "max_command_length") THEN Raised("KeyError")
    ELSE IF Len(command) > config["max_command_length"]
    THEN SafetyResult(FALSE, MEDIUM, ("Command too long (" \o ToString(Len(command))) \o " chars)", <<>>, <<>>)
    ELSE
    LET privilege_check == _check_privilege_commands(command, config) IN
    IF Decides(privilege_check) THEN privilege_check ELSE
    LET dangerous_check == _check_dangerous_patterns(command) IN
    IF Decides(dangerous_check) THEN dangerous_check ELSE
    LET destructive_check == _check_destructive_commands(command, config) IN
    IF Decides(destructive_check) THEN destructive_check ELSE
    LET network_check == _check_network_commands(command, config) IN
    IF Decides(network_check) THEN network_check ELSE
    LET path_check == _check_file_paths(command, config) IN
    IF Decides(path_check) THEN path_check ELSE
    LET wildcard_check == _check_wildcards(command, config) IN
    IF Decides(wildcard_check) THEN wildcard_check ELSE
    SafetyResult(TRUE, LOW, "Command passed all safety checks", <<>>, <<>>)

check_command(cmd, config) ==
    IF cmd = "" \/ Strip(cmd) = ""
    THEN SafetyResult(FALSE, MEDIUM, "Empty command provided", <<>>, <<>>)
    ELSE
    LET command == Strip(cmd) IN
    IF ~HasKey(config, "max_command_length") THEN Raised("KeyError")
    ELSE IF Len(command) > config["max_command_length"]
    THEN SafetyResult(FALSE, MEDIUM, ("Command too long (" \o ToString(Len(command))) \o " chars)", <<>>, <<>>)
    ELSE
    LET dangerous_check == _check_dangerous_patterns(command) IN
    IF Decides(dangerous_check) THEN dangerous_check ELSE
    LET privilege_check == _check_privilege_commands(command, config) IN
    IF Decides(privilege_check) THEN privilege_check ELSE
    LET destructive_check == _check_destructive_commands(command, config) IN
    IF Decides(destructive_check) THEN destructive_check ELSE
    LET network_check == _check_network_commands(command, config) IN
    IF Decides(network_check) THEN network_check ELSE
    LET path_check == _check_file_paths(command, config) IN
    IF Decides(path_check) THEN path_check ELSE
    LET wildcard_check == _check_wildcards(command, config) IN
    IF Decides(wildcard_check) THEN wildcard_check ELSE
    SafetyResult(TRUE, LOW, "Command passed all safety checks", <<>>, <<>>)

(***************************************************************************)
(* compliance/checker.py                                                   *)
(***************************************************************************)
Rule(name, re, description) == [rule |-> name, re |-> re, description |-> description]

COMPLIANCE_RULES == <<
    Rule("No PII Exposure",
         <<ALT({"cat", "less", "more"}), WS1, ANY, ALT({"passwd", "shadow", "creditcard", "ssn", "patient"})>>,
         "Command may expose sensitive PII/PHI data."),
    Rule("No Unencrypted Data Transfer", <<WB, ALT({"ftp", "telnet"}), WB>>,
         "Insecure protocols used for data transfer (unencrypted)."),
    Rule("No Passwords in Commands", <<ALT({"--password", "--pass", "--pwd"}), WS1, NONSP1>>,
         "Password detected directly in command arguments."),
    Rule("No Mass Deletion", <<Lit("rm"), WS1, Lit("-rf"), WS1, Lit("/")>>,
         "Potential system-wide deletion detected."),
    Rule("SOX: Logging Required",
         <<ALT({"useradd", "userdel", "usermod", "groupadd", "groupdel", "passwd"}), WB>>,
         "User and group management must be logged under SOX compliance."),
    Rule("SOX: File Permission Change", <<Lit("chmod"), WS1, OCT, OCT, OCT, WS1>>,
         "File permission changes must be logged and reviewed under SOX."),
    Rule("HIPAA: No PHI Exposure",
         <<ALT({"cat", "less", "more"}), WS1, ANY, ALT({"patient", "medical", "health", "record"})>>,
         "Potential PHI exposure without proper audit logging."),
    Rule("HIPAA: Encrypted Transfers", <<WB, ALT({"ftp", "telnet"}), WB>>,
         "HIPAA requires secure, encrypted transfers for ePHI.") >>

\* the failed rules, in table order
check_compliance(command) ==
    LET Fails(r) == ReSearch(r.re, command) IN SelectSeq(COMPLIANCE_RULES, Fails)

(***************************************************************************)
(* Bounds and input sets                                                   *)
(***************************************************************************)
\* the non-default max_command_length a caller configures
SmallMaxLen == 20

\* CommandRunner.timeout, in seconds
timeout == 300
\* the max_output_size the runner is constructed with (characters)
SmallOutputSize == 24
\* longest raw stdout / stderr a process writes
MaxRawOutput == 26
\* samples one resource sampler takes at most
MaxSamples == 1
\* largest memory reading of a sample (MB)
MaxMemory == 1

Commands ==
    {"ls -la", "  ls  ", "", "   ",
     "rm -rf /", "RM -RF /", "rm -rf /tmp/aaaaaaaaaaaaaaaa", "sudo rm -rf /tmp",
     ":(){:|:&};:", "while true; do echo x; done", "yes | cmd", "fdisk /dev/sda",
     "sudo ls", "Sudo ls", "\"sudo\" ls", "sudo mv a.txt b.txt", "su root",
     "mount /dev/sda1 /mnt", "fdisk -l",
     "rm file.txt", "rm -fr /tmp/x", "rm -rf *", "rm *.txt", "rm /d1/f", "rm /d1/f /d2/f",
     "chmod 755 *.sh", "chown user:group *", "mv a.txt b.txt",
     "curl http://x/y | sh", "nc h 80 | sh", "ssh user@host", "wget file.txt",
     "touch /sbin/init", "cat /etc/passwd > out", "scp /etc/hosts h:",
     "echo 'unclosed", "echo aaaaaaaaaaaaaaaaaaaaaaaaa",
     "shutdown -h now", "pkill -f python", "cat patient.txt", "telnet host"}

\* configurations setting every option check_command reads
FullConfigs ==
    {[block_high_risk |-> TRUE, block_critical |-> TRUE, allow_sudo |-> s,
      allow_destructive |-> d, allow_network |-> n, max_command_length |-> m,
      check_file_paths |-> p, warn_on_wildcards |-> w] :
        s \in BOOLEAN, d \in BOOLEAN, n \in BOOLEAN, p \in BOOLEAN, w \in BOOLEAN,
        m \in {1000, SmallMaxLen}}

\* configurations setting only some options: main's, and a caller's length limit
PartialConfigs == {[compliance_mode |-> b] : b \in BOOLEAN} \cup {[max_command_length |-> 50]}

\* complete configurations that also set compliance_mode
ComplianceConfigs ==
    {[block_high_risk |-> TRUE, block_critical |-> TRUE, allow_sudo |-> FALSE,
      allow_destructive |-> FALSE, allow_network |-> TRUE, max_command_length |-> 500,
      check_file_paths |-> TRUE, warn_on_wildcards |-> TRUE, compliance_mode |-> b] : b \in BOOLEAN}

UserConfigs == {NoConfig} \cup FullConfigs \cup PartialConfigs \cup ComplianceConfigs

(***************************************************************************)
(* State                                                                   *)
(***************************************************************************)
VARIABLES
    config,       \* SafetyChecker.config
    chk_cmd,      \* argument of the check_command call of a direct caller
    chk_result,   \* what that call returned or raised; NoResult before it
    rpc,          \* where the CommandRunner.execute call stands
    process,      \* the spawned process group: state, returncode, raw output
    current_process, \* CommandRunner.current_process is set (not None)
    monitor,      \* the call's sampler thread and its monitor_data
    signals,      \* signals sent to the process group, in order
    run_result,   \* the ExecutionResult execute returned; NoRun before
    fs,           \* the files commands work on: path -> file
    backup_dir,   \* RollbackManager.backup_dir: backup path -> file
    backups,      \* RollbackManager.backups, in insertion order: <<original, backup>>
    now,          \* the wall clock, in seconds
    opts,         \* main's flags: dry_run, no_confirm, split_multi
    all_commands, \* main's generated_commands, then all_commands
    idx,          \* main's loop index into all_commands
    generated_command, \* the command of the current iteration (possibly edited)
    safety_result, \* what the latest check_command call of main returned
    checked,      \* the argument of that call
    executed,     \* the argument of the latest command_runner.execute call of main
    calls,        \* what main called for the current command, in order, from the backup step on
    edits,        \* how often the operator has edited a command
    cli,          \* where main stands
    callers,      \* threads sharing one SafetyChecker: where each stands in check_command
    epoch,        \* number of update_config calls so far
    log,          \* the check_command evaluations that have ended
    denylist_json, \* the file denylist.json: whether it exists, and its text
    adder,        \* the process running `add`: where it stands, its table, what it has yet to write
    reader,       \* a process running load_denylist: where it stands, what it got
    call_args,    \* arguments of a direct call of one method
    call_ret      \* what that call returned or raised; NoResult before it

chkVars == <<config, chk_cmd, chk_result>>
runVars == <<rpc, process, current_process, monitor, signals, run_result>>
rbmVars == <<fs, backup_dir, backups, now>>
cliVars == <<opts, all_commands, idx, generated_command, safety_result, checked, executed,
             calls, edits, cli>>
thrVars == <<callers, epoch, log, denylist_json, adder, reader>>
fnVars == <<call_args, call_ret>>
vars == <<config, chk_cmd, chk_result, rpc, process, current_process, monitor, signals, run_result,
          fs, backup_dir, backups, now, opts, all_commands, idx, generated_command,
          safety_result, checked, executed, calls, edits, cli, callers, epoch, log,
          denylist_json, adder, reader,
          call_args, call_ret>>

NoResult == [pending |-> TRUE]

(***************************************************************************)
(* Files and RollbackManager                                               *)
(***************************************************************************)
\* two originals with the same file name in different directories
Paths == {"/d1/f", "/d2/f"}

File(content, mode) == [kind |-> "file", content |-> content, mode |-> mode]
\* the path does not exist, its directory does
Missing == [kind |-> "missing", content |-> "", mode |-> 0]
\* the directory of the path does not exist
NoDir == [kind |-> "nodir", content |-> "", mode |-> 0]

\* what a path holds at the start, and what a command can leave there
OriginalFile == File("old", 644)
FileStates == {OriginalFile, File("new", 600), Missing, NoDir}

\* Path(file_path).name: the last component
RECURSIVE LastSlash(_, _)
LastSlash(s, i) == IF i = 0 THEN 0 ELSE IF Ch(s, i) = "/" THEN i ELSE LastSlash(s, i - 1)
Name(file_path) == SubSeq(file_path, LastSlash(file_path, Len(file_path)) + 1, Len(file_path))

\* datetime.now().strftime("%Y%m%d%H%M%S"): one text per second
strftime(t) == ToString(t)

\* self.backup_dir / f"{file.name}.bak.{timestamp}"
BackupPath(file_path, t) == (Name(file_path) \o ".bak.") \o strftime(t)

\* d[k] = v on a dict: a key already present keeps its place
RECURSIVE DictSet(_, _, _)
DictSet(d, k, v) ==
    IF d = <<>> THEN <<<<k, v>>>>
    ELSE IF Head(d)[1] = k THEN <<<<k, v>>>> \o Tail(d)
    ELSE <<Head(d)>> \o DictSet(Tail(d), k, v)

\* the manager and the disk it works on
Manager(f, bd, b) == [fs |-> f, backup_dir |-> bd, backups |-> b]

\* Path.exists() and Path.is_file()
IsFile(f, file_path) == file_path \in DOMAIN f /\ f[file_path].kind = "file"

None == ""

\* mutant: the path is copied whatever it holds
backup_file_unchecked(m, file_path, t) ==
    LET backup_path == BackupPath(file_path, t) IN
    [m |-> Manager(m.fs,
                   [p \in DOMAIN m.backup_dir \cup {backup_path} |->
                       IF p = backup_path THEN m.fs[file_path] ELSE m.backup_dir[p]],
                   DictSet(m.backups, file_path, backup_path)),
     ret |-> backup_path]

\* backup_file: returns the backup path, None for what is not a regular file
backup_file(m, file_path, t) ==
    IF ~IsFile(m.fs, file_path) THEN [m |-> m, ret |-> None]
    ELSE LET backup_path == BackupPath(file_path, t) IN
         [m |-> Manager(m.fs,
                        [p \in DOMAIN m.backup_dir \cup {backup_path} |->
                            IF p = backup_path THEN m.fs[file_path] ELSE m.backup_dir[p]],
                        DictSet(m.backups, file_path, backup_path)),
          ret |-> backup_path]

\* backup_files: the paths in order, the clock read by each backup_file
RECURSIVE BackupEach(_, _, _, _)
BackupEach(m, file_paths, t, backed_up) ==
    IF file_paths = <<>> THEN [m |-> m, backed_up |-> backed_up]
    ELSE LET one == backup_file(m, Head(file_paths), t) IN
         BackupEach(one.m, Tail(file_paths), t,
                    IF one.ret # None THEN DictSet(backed_up, Head(file_paths), one.ret)
                    ELSE backed_up)

backup_files(m, file_paths, t) == BackupEach(m, file_paths, t, <<>>)

\* restore_all: shutil.copy2 onto a path whose directory is gone raises
\* FileNotFoundError, which ends the loop and leaves restore_all
RECURSIVE RestoreFrom(_, _, _)
RestoreFrom(m, i, restored) ==
    IF i > Len(m.backups) THEN [m |-> m, raised |-> FALSE, restored |-> restored]
    ELSE LET original == m.backups[i][1]
             backup == m.backups[i][2]
         IN IF backup \notin DOMAIN m.backup_dir THEN RestoreFrom(m, i + 1, restored)
            ELSE IF m.fs[original].kind = "nodir"
                 THEN [m |-> m, raised |-> TRUE, restored |-> restored]
            ELSE RestoreFrom([m EXCEPT !.fs[original] = m.backup_dir[backup]], i + 1,
                             Append(restored, original))

restore_all(m) == RestoreFrom(m, 1, <<>>)

\* clear_backups: every mapped backup file is unlinked, the mapping emptied
clear_backups(m) ==
    LET mapped == {m.backups[i][2] : i \in 1..Len(m.backups)} IN
    Manager(m.fs, [p \in DOMAIN m.backup_dir \ mapped |-> m.backup_dir[p]], <<>>)

\* dict.get: the value of the key, None when the key is absent
RECURSIVE DictGet(_, _)
DictGet(d, k) ==
    IF d = <<>> THEN None ELSE IF Head(d)[1] = k THEN Head(d)[2] ELSE DictGet(Tail(d), k)

\* the owner may write the file
OwnerWritable(mode) == ((mode \div 100) % 10) \in {2, 3, 6, 7}

\* shutil.copy2 onto the path opens it for writing: the exception it raises,
\* None when it copies. A process with CAP_DAC_OVERRIDE (root) writes
\* whatever the mode is.
copy2_error(target, privileged) ==
    IF target.kind = "nodir" THEN "FileNotFoundError"
    ELSE IF target.kind = "file" /\ ~OwnerWritable(target.mode) /\ ~privileged THEN "PermissionError"
    ELSE None

\* restore_file: the copy is not guarded, what it raises leaves restore_file
\* (raised names the exception, and then nothing is returned)
restore_file(m, file_path, privileged) ==
    LET backup_path == DictGet(m.backups, file_path) IN
    IF backup_path # None /\ backup_path \in DOMAIN m.backup_dir
    THEN IF copy2_error(m.fs[file_path], privileged) # None
         THEN [m |-> m, raised |-> copy2_error(m.fs[file_path], privileged), ret |-> FALSE]
         ELSE [m |-> [m EXCEPT !.fs[file_path] = m.backup_dir[backup_path]], raised |-> None, ret |-> TRUE]
    ELSE [m |-> m, raised |-> None, ret |-> FALSE]

Callers == {1, 2}

\* no thread is inside check_command and update_config has not been called
ThreadsIdle ==
    /\ callers = [t \in Callers |-> [pc |-> 0]]
    /\ epoch = 0
    /\ log = {}
    /\ denylist_json = [exists |-> FALSE, text |-> <<>>]
    /\ adder = [pc |-> "idle"]
    /\ reader = [pc |-> "idle"]

\* no method is called on its own
NoCall ==
    /\ call_args = <<>>
    /\ call_ret = NoResult

\* RollbackManager.__init__ on an empty backup directory, the files in place
RbmIdle ==
    /\ fs = [p \in Paths |-> OriginalFile]
    /\ backup_dir = <<>>
    /\ backups = <<>>
    /\ now = 0

\* main has not been started
CliIdle ==
    /\ opts = [dry_run |-> FALSE, no_confirm |-> FALSE, split_multi |-> FALSE]
    /\ all_commands = <<>>
    /\ idx = 0
    /\ generated_command = ""
    /\ safety_result = NoResult
    /\ checked = ""
    /\ executed = ""
    /\ calls = <<>>
    /\ edits = 0
    /\ cli = "idle"

(***************************************************************************)
(* CommandRunner.execute                                                   *)
(***************************************************************************)
SUCCESS == "success"
FAILED == "failed"
TIMEOUT == "timeout"
INTERRUPTED == "interrupted"
ERROR == "error"

NoRun == [pending |-> TRUE]
NoProcess == [state |-> "none", returncode |-> 0, stdout |-> "", stderr |-> ""]
NoMonitor == [pc |-> "none", stop_monitoring |-> FALSE, max_memory_mb |-> 0, max_cpu_percent |-> 0,
              samples |-> 0]

ExecutionResult(success, exit_code, stdout, stderr, status, resource_usage, error_message) ==
    [success |-> success, exit_code |-> exit_code, stdout |-> stdout, stderr |-> stderr,
     status |-> status, resource_usage |-> resource_usage, error_message |-> error_message]

RECURSIVE Repeat(_, _)
Repeat(c, n) == IF n = 0 THEN "" ELSE c \o Repeat(c, n - 1)

truncation_marker == "\n... (output truncated)"

\* mutant: the output is cut and nothing is appended
Truncate_silently(out, max_output_size) ==
    IF Len(out) > max_output_size THEN SubSeq(out, 1, max_output_size) ELSE out

\* lines 219-223: the output is cut at max_output_size and the marker appended
Truncate(out, max_output_size) ==
    IF Len(out) > max_output_size THEN SubSeq(out, 1, max_output_size) \o truncation_marker ELSE out

\* _stop_resource_monitoring: what it returns
ResourceUsage(m) == <<m.max_memory_mb, m.max_cpu_percent>>

RunnerIdle ==
    /\ rpc = "idle"
    /\ process = NoProcess
    /\ current_process = FALSE
    /\ monitor = NoMonitor
    /\ signals = <<>>
    /\ run_result = NoRun

\* execute is entered (line 90)
ExecuteBegin ==
    /\ rpc' = "call"
    /\ process' = NoProcess
    /\ monitor' = NoMonitor
    /\ signals' = <<>>
    /\ run_result' = NoRun
    /\ UNCHANGED current_process

\* subprocess.Popen succeeds: the process leads its own group (lines 190-202)
Spawn ==
    /\ rpc = "call"
    /\ rpc' = "spawned"
    /\ process' = [NoProcess EXCEPT !.state = "running"]
    /\ current_process' = TRUE
    /\ UNCHANGED <<monitor, signals, run_result>>

\* subprocess.Popen raises: caught by `except Exception` (lines 166-179)
SpawnFails ==
    /\ rpc = "call"
    /\ rpc' = "returned"
    /\ run_result' = ExecutionResult(FALSE, -1, "", "spawn failed", ERROR, <<>>, "spawn failed")
    /\ UNCHANGED <<process, current_process, monitor, signals>>

\* the sampler thread is started and communicate() entered (lines 204-211)
StartMonitoring ==
    /\ rpc = "spawned"
    /\ rpc' = "waiting"
    /\ monitor' = [NoMonitor EXCEPT !.pc = "check"]
    /\ UNCHANGED <<process, current_process, signals, run_result>>

\* text of exactly the size the runner keeps, whose last line reads like the
\* marker (the output of an earlier, truncated run shown again)
AtCeiling == Repeat("x", SmallOutputSize - Len(truncation_marker)) \o truncation_marker

\* what a command writes to stdout: nothing, text up to and beyond the size
\* the runner keeps, and a bracketed tag
Outputs == {"", AtCeiling, Repeat("x", MaxRawOutput), "[/]"}

\* the process group ends on its own, or because it honours SIGTERM
ProcessExits ==
    /\ process.state = "running"
    /\ \E rc \in {0, 1} : \E out \in Outputs : \E ne \in {0, MaxRawOutput} :
          process' = [state |-> "exited", returncode |-> rc,
                      stdout |-> out, stderr |-> Repeat("e", ne)]
    /\ UNCHANGED <<rpc, current_process, monitor, signals, run_result>>

\* communicate() raises while it decodes what the process wrote
\* (UnicodeDecodeError under text=True): finally (240-243), then the handler
\* of lines 166-179
CommunicateRaises ==
    /\ rpc = "waiting"
    /\ process.state = "exited"
    /\ process' = [process EXCEPT !.state = "reaped"]
    /\ run_result' = ExecutionResult(FALSE, -1, "", "codec can't decode", ERROR, <<>>,
                                     "codec can't decode")
    /\ monitor' = [monitor EXCEPT !.stop_monitoring = TRUE]
    /\ current_process' = FALSE
    /\ rpc' = "returned"
    /\ UNCHANGED signals

\* mutant: every completed process is reported as a success
CommunicateReturns_always_success ==
    /\ rpc = "waiting"
    /\ process.state = "exited"
    /\ process' = [process EXCEPT !.state = "reaped"]
    /\ run_result' = ExecutionResult(TRUE, process.returncode,
                                     Truncate(process.stdout, SmallOutputSize),
                                     Truncate(process.stderr, SmallOutputSize),
                                     SUCCESS, ResourceUsage(monitor), "")
    /\ monitor' = [monitor EXCEPT !.stop_monitoring = TRUE]
    /\ current_process' = FALSE
    /\ rpc' = "returned"
    /\ UNCHANGED signals

\* communicate() returns: lines 211-243, then 124-131
CommunicateReturns ==
    /\ rpc = "waiting"
    /\ process.state = "exited"
    /\ process' = [process EXCEPT !.state = "reaped"]
    /\ LET success == process.returncode = 0 IN
       run_result' = ExecutionResult(success, process.returncode,
                                     Truncate(process.stdout, SmallOutputSize),
                                     Truncate(process.stderr, SmallOutputSize),
                                     IF success THEN SUCCESS ELSE FAILED,
                                     ResourceUsage(monitor), "")
    /\ monitor' = [monitor EXCEPT !.stop_monitoring = TRUE]
    /\ current_process' = FALSE
    /\ rpc' = "returned"
    /\ UNCHANGED signals

\* communicate() raises TimeoutExpired: finally (240-243), handler (133-146)
Timeout ==
    /\ rpc = "waiting"
    /\ process.state = "running"
    /\ current_process' = FALSE
    /\ monitor' = [monitor EXCEPT !.stop_monitoring = TRUE]
    /\ run_result' = ExecutionResult(FALSE, -1, "",
                                     ("Command timed out after " \o ToString(timeout)) \o " seconds",
                                     TIMEOUT, <<>>, "Command execution timed out")
    /\ rpc' = "returned"
    /\ UNCHANGED <<process, signals>>

InterruptedResult ==
    ExecutionResult(FALSE, -2, "", "Command interrupted by user", INTERRUPTED, <<>>,
                    "Command interrupted by user")

\* KeyboardInterrupt inside communicate(): finally (240-243) resets
\* current_process, then the handler (148-164) tests it
InterruptWhileWaiting ==
    /\ rpc = "waiting"
    /\ process.state \in {"running", "exited"}
    /\ process' = [process EXCEPT !.state = IF @ = "exited" THEN "reaped" ELSE @]
    /\ monitor' = [monitor EXCEPT !.stop_monitoring = TRUE]
    /\ current_process' = FALSE
    /\ IF current_process'
       THEN /\ rpc' = "terminating"
            /\ UNCHANGED run_result
       ELSE /\ rpc' = "returned"
            /\ run_result' = InterruptedResult
    /\ UNCHANGED signals

\* KeyboardInterrupt after Popen and before the try of line 209: no finally
\* runs, the handler finds current_process set and calls _terminate_process
InterruptBeforeWait ==
    /\ rpc = "spawned"
    /\ rpc' = "terminating"
    /\ UNCHANGED <<process, current_process, monitor, signals, run_result>>

\* mutant: the group is signalled without looking at poll()
TerminateSignal_without_poll ==
    /\ rpc = "terminating"
    /\ signals' = Append(signals, "SIGTERM")
    /\ rpc' = "grace"
    /\ UNCHANGED <<process, run_result>>
    /\ UNCHANGED <<current_process, monitor>>

\* _terminate_process, lines 320-326: poll(), then SIGTERM to the group
TerminateSignal ==
    /\ rpc = "terminating"
    /\ IF process.state = "running"
       THEN /\ signals' = Append(signals, "SIGTERM")
            /\ rpc' = "grace"
            /\ UNCHANGED <<process, run_result>>
       ELSE /\ process' = [process EXCEPT !.state = "reaped"]
            /\ rpc' = "returned"
            /\ run_result' = InterruptedResult
            /\ UNCHANGED signals
    /\ UNCHANGED <<current_process, monitor>>

\* _terminate_process, line 330: the process ended within the 5 seconds
GraceWaitReturns ==
    /\ rpc = "grace"
    /\ process.state = "exited"
    /\ process' = [process EXCEPT !.state = "reaped"]
    /\ rpc' = "returned"
    /\ run_result' = InterruptedResult
    /\ UNCHANGED <<current_process, monitor, signals>>

\* _terminate_process, lines 331-337: grace period over, SIGKILL and wait()
GraceExpires ==
    /\ rpc = "grace"
    /\ process.state = "running"
    /\ signals' = Append(signals, "SIGKILL")
    /\ process' = [process EXCEPT !.state = "reaped", !.returncode = -9]
    /\ rpc' = "returned"
    /\ run_result' = InterruptedResult
    /\ UNCHANGED <<current_process, monitor>>

\* the sampler thread: `while not monitor_data['stop_monitoring']` (line 272)
MonitorCheck ==
    /\ monitor.pc = "check"
    /\ monitor' = [monitor EXCEPT !.pc = IF monitor.stop_monitoring THEN "done" ELSE "sample"]
    /\ UNCHANGED <<rpc, process, current_process, signals, run_result>>

\* the sampler thread: one sample and the sleep (lines 273-296)
MonitorSample ==
    /\ monitor.pc = "sample"
    /\ IF process.state = "reaped"
       THEN monitor' = [monitor EXCEPT !.pc = "done"]
       ELSE /\ monitor.samples < MaxSamples
            /\ \E memory_mb \in 1..MaxMemory : \E cpu_percent \in {0, 1} :
                  monitor' = [monitor EXCEPT !.pc = "check",
                                             !.samples = @ + 1,
                                             !.max_memory_mb = IF memory_mb > @ THEN memory_mb ELSE @,
                                             !.max_cpu_percent = IF cpu_percent > @ THEN cpu_percent ELSE @]
    /\ UNCHANGED <<rpc, process, current_process, signals, run_result>>

RunnerStep ==
    \/ Spawn \/ SpawnFails \/ StartMonitoring \/ ProcessExits \/ CommunicateReturns
    \/ CommunicateRaises
    \/ Timeout \/ InterruptWhileWaiting \/ InterruptBeforeWait
    \/ TerminateSignal \/ GraceWaitReturns \/ GraceExpires
    \/ MonitorCheck \/ MonitorSample

(***************************************************************************)
(* A caller runs one command with a CommandRunner                          *)
(***************************************************************************)
RunnerInit ==
    /\ config = _get_default_config
    /\ chk_cmd = ""
    /\ chk_result = NoResult
    /\ rpc = "call"
    /\ process = NoProcess
    /\ current_process = FALSE
    /\ monitor = NoMonitor
    /\ signals = <<>>
    /\ run_result = NoRun
    /\ RbmIdle
    /\ ThreadsIdle
    /\ NoCall
    /\ CliIdle

RunnerNext ==
    \/ Spawn /\ UNCHANGED <<chkVars, thrVars, fnVars, rbmVars, cliVars>>
    \/ SpawnFails /\ UNCHANGED <<chkVars, thrVars, fnVars, rbmVars, cliVars>>
    \/ StartMonitoring /\ UNCHANGED <<chkVars, thrVars, fnVars, rbmVars, cliVars>>
    \/ ProcessExits /\ UNCHANGED <<chkVars, thrVars, fnVars, rbmVars, cliVars>>
    \/ CommunicateReturns /\ UNCHANGED <<chkVars, thrVars, fnVars, rbmVars, cliVars>>
    \/ CommunicateRaises /\ UNCHANGED <<chkVars, thrVars, fnVars, rbmVars, cliVars>>
    \/ Timeout /\ UNCHANGED <<chkVars, thrVars, fnVars, rbmVars, cliVars>>
    \/ InterruptWhileWaiting /\ UNCHANGED <<chkVars, thrVars, fnVars, rbmVars, cliVars>>
    \/ InterruptBeforeWait /\ UNCHANGED <<chkVars, thrVars, fnVars, rbmVars, cliVars>>
    \/ TerminateSignal /\ UNCHANGED <<chkVars, thrVars, fnVars, rbmVars, cliVars>>
    \/ GraceWaitReturns /\ UNCHANGED <<chkVars, thrVars, fnVars, rbmVars, cliVars>>
    \/ GraceExpires /\ UNCHANGED <<chkVars, thrVars, fnVars, rbmVars, cliVars>>
    \/ MonitorCheck /\ UNCHANGED <<chkVars, thrVars, fnVars, rbmVars, cliVars>>
    \/ MonitorSample /\ UNCHANGED <<chkVars, thrVars, fnVars, rbmVars, cliVars>>

SpecRunner == RunnerInit /\ [][RunnerNext]_vars

(***************************************************************************)
(* A caller constructs a SafetyChecker and evaluates one command           *)
(***************************************************************************)
CheckerInit ==
    /\ config \in {SafetyChecker_init(c) : c \in UserConfigs}
    /\ chk_cmd \in Commands
    /\ chk_result = NoResult
    /\ RunnerIdle
    /\ RbmIdle
    /\ ThreadsIdle
    /\ NoCall
    /\ CliIdle

CheckCommand ==
    /\ chk_result = NoResult
    /\ chk_result' = check_command(chk_cmd, config)
    /\ UNCHANGED <<config, chk_cmd>>
    /\ UNCHANGED <<runVars, rbmVars, cliVars, thrVars, fnVars>>

CheckerNext == CheckCommand

SpecChecker == CheckerInit /\ [][CheckerNext]_vars

(***************************************************************************)
(* Claims about check_command (specification SpecChecker)                  *)
(***************************************************************************)
ChkDone == chk_result # NoResult
ChkReturned == ChkDone /\ ~IsRaise(chk_result)
\* the command as check_command sees it after the strip
ChkStripped == Strip(chk_cmd)
\* every option check_command reads has a value
CompleteConfig ==
    {"allow_sudo", "allow_destructive", "allow_network", "max_command_length",
     "check_file_paths", "warn_on_wildcards"} \subseteq DOMAIN config
WithinLength == HasKey(config, "max_command_length") /\ Len(ChkStripped) <= config["max_command_length"]
ChkWords == ShlexSplit(Lower(ChkStripped))
ChkFirstToken == IF ChkWords.ok /\ ChkWords.words # <<>> THEN ChkWords.words[1] ELSE ""
MatchesDangerous ==
    \E i \in 1..Len(_load_dangerous_patterns) : ReSearch(_load_dangerous_patterns[i].re, ChkStripped)
Unsafe(r, level) == ~IsRaise(r) /\ ~r.is_safe /\ r.risk_level = level
Severity(level) == CASE level = LOW -> 1 [] level = MEDIUM -> 2 [] level = HIGH -> 3 [] level = CRITICAL -> 4

\* the pipeline order the claim fixes, each stage evaluated on its own
PipelineVerdict(k) ==
    CASE k = 1 -> IF ChkStripped = ""
                  THEN SafetyResult(FALSE, MEDIUM, "Empty command provided", <<>>, <<>>) ELSE Passed("")
      [] k = 2 -> IF ChkStripped # "" /\ ~WithinLength
                  THEN SafetyResult(FALSE, MEDIUM,
                                    ("Command too long (" \o ToString(Len(ChkStripped))) \o " chars)", <<>>, <<>>)
                  ELSE Passed("")
      [] k = 3 -> _check_dangerous_patterns(ChkStripped)
      [] k = 4 -> _check_privilege_commands(ChkStripped, config)
      [] k = 5 -> _check_destructive_commands(ChkStripped, config)
      [] k = 6 -> _check_network_commands(ChkStripped, config)
      [] k = 7 -> _check_file_paths(ChkStripped, config)
      [] k = 8 -> _check_wildcards(ChkStripped, config)
PipelineFailing == {k \in 1..8 : ~IsRaise(PipelineVerdict(k)) /\ ~PipelineVerdict(k).is_safe}

C6_Original ==
    (ChkDone /\ CompleteConfig /\ MatchesDangerous) => Unsafe(chk_result, CRITICAL)

\* C6 amended: every command no longer than max_command_length that matches
\* a dangerous pattern is rejected at CRITICAL with the matched patterns
\* recorded, whatever the other options are (set or not).
C6_DangerousWithinLengthIsCritical ==
    (ChkDone /\ WithinLength /\ MatchesDangerous) =>
        (Unsafe(chk_result, CRITICAL) /\ chk_result.blocked_patterns # <<>>)

\* a dangerous command rejected at CRITICAL under the most permissive flags
C6_Witness ==
    /\ ChkDone /\ CompleteConfig /\ WithinLength /\ MatchesDangerous
    /\ config["allow_sudo"] /\ config["allow_destructive"] /\ config["allow_network"]
    /\ ~config["check_file_paths"] /\ ~config["warn_on_wildcards"]
    /\ Unsafe(chk_result, CRITICAL)

PipedToShell == ReSearch(<<Lit("|"), WS0, ALT({"sh", "bash"})>>, ChkStripped)

\* C7 as stated: a network command piped into a shell interpreter is
\* rejected at CRITICAL for allow_network true and false alike.
C7_NetworkPipeToShellIsCritical ==
    (ChkDone /\ CompleteConfig /\ WithinLength /\ PipedToShell
       /\ ChkFirstToken \in _load_network_commands) => Unsafe(chk_result, CRITICAL)

PrivilegedFirstToken ==
    \/ ChkFirstToken = "sudo" /\ ~config["allow_sudo"]
    \/ ChkFirstToken \in _load_privilege_commands \ {"sudo"}

ReachesDestructiveStage ==
    /\ ChkDone /\ CompleteConfig /\ WithinLength /\ ~MatchesDangerous
    /\ ChkWords.ok /\ ChkFirstToken \in _load_destructive_commands
    /\ ~Decides(_check_privilege_commands(ChkStripped, config))

\* C9 as stated: with allow_destructive=false every such command, rm
\* included, is rejected at HIGH; with allow_destructive=true the stage passes.
C9_Original ==
    ReachesDestructiveStage =>
        IF config["allow_destructive"]
        THEN _check_destructive_commands(ChkStripped, config).is_safe
        ELSE Unsafe(chk_result, HIGH)

RmForceOnDangerousPath ==
    /\ Contains(ChkStripped, "-rf") \/ Contains(ChkStripped, "-fr")
    /\ \E path \in {"/", "~", "$HOME", "*"} : Contains(ChkStripped, path)

\* C9 amended: with allow_destructive=false every member of the set other
\* than rm is rejected at HIGH; rm is rejected at CRITICAL when it carries
\* -rf or -fr together with one of / ~ $HOME *, and otherwise passes the
\* stage, so that only the path stage can still reject it; with
\* allow_destructive=true the stage passes.
C9_DestructiveExceptRmIsHigh ==
    ReachesDestructiveStage =>
        IF config["allow_destructive"] THEN _check_destructive_commands(ChkStripped, config).is_safe
        ELSE IF ChkFirstToken # "rm" THEN Unsafe(chk_result, HIGH)
        ELSE IF RmForceOnDangerousPath THEN Unsafe(chk_result, CRITICAL)
        ELSE chk_result.is_safe \/ chk_result = _check_file_paths(ChkStripped, config)

\* an rm that the destructive stage lets through with allow_destructive=false
C9_Witness ==
    /\ ReachesDestructiveStage /\ ~config["allow_destructive"]
    /\ ChkFirstToken = "rm" /\ ~RmForceOnDangerousPath
    /\ chk_result.is_safe

WildcardOnRmChmodChown ==
    \E i \in 1..4 : ReSearch(dangerous_wildcards[i], ChkStripped)

\* C10 as stated: with warn_on_wildcards enabled a command that no stage
\* blocks and that combines rm, chmod or chown with a glob character gets
\* is_safe=true at MEDIUM with a suggestion.
C10_WildcardAdvisoryReturned ==
    (ChkReturned /\ CompleteConfig /\ config["warn_on_wildcards"] /\ PipelineFailing = {}
       /\ WildcardOnRmChmodChown) =>
        (chk_result.is_safe /\ chk_result.risk_level = MEDIUM /\ chk_result.suggestions # <<>>)

\* the command does not tokenize: shlex.split raises ValueError on it
Untokenizable == ChkStripped # "" /\ ~ShlexSplit(ChkStripped).ok

\* C11 as stated: a non-empty command with unbalanced quotes gets a verdict
\* with is_safe=false at MEDIUM, returned as a value: check_command does not
\* raise.
C11_UnbalancedQuotesReturnMedium ==
    (ChkDone /\ CompleteConfig /\ Untokenizable) => Unsafe(chk_result, MEDIUM)

\* no stage before the path stage decides the command
PassesBeforePathStage ==
    /\ ChkDone /\ CompleteConfig /\ ChkWords.ok
    /\ \A k \in 1..6 : k \notin PipelineFailing

ReferencesSystemPath ==
    \E path \in {"/etc/", "/boot/", "/usr/", "/bin/", "/sbin/", "/lib/", "/lib64/"} :
        Contains(ChkStripped, path)

\* C12 as stated: with check_file_paths enabled a command that passes the
\* earlier stages and references a system-critical path prefix is rejected
\* at HIGH whatever the operation is; with check_file_paths disabled the path
\* stage never fails.
C12_SystemPathIsHighWhateverOperation ==
    /\ (PassesBeforePathStage /\ config["check_file_paths"] /\ ReferencesSystemPath) =>
           Unsafe(chk_result, HIGH)
    /\ (ChkDone /\ CompleteConfig /\ ~config["check_file_paths"]) =>
           _check_file_paths(ChkStripped, config).is_safe

\* C13: every verdict check_command returns with is_safe=false carries a
\* non-empty reason, for every command and every configuration.
C13_UnsafeVerdictHasReason ==
    (ChkReturned /\ ~chk_result.is_safe) => chk_result.reason # ""

\* a rejection by the path stage, the last stage that can reject, with its reason
C13_Witness ==
    /\ ChkReturned /\ ~chk_result.is_safe /\ chk_result.reason # ""
    /\ HasKey(config, "check_file_paths")
    /\ chk_result = _check_file_paths(ChkStripped, config)

\* the denylist of test_denylist_blocking: tier -> patterns
denylist ==
    [level \in RiskLevel |->
        CASE level = CRITICAL -> {"rm -rf /", ":(){:|:&};:"}
          [] level = HIGH -> {"mkfs", "dd of=/dev/sd"}
          [] level = MEDIUM -> {"shutdown", "reboot"}
          [] level = LOW -> {"pkill", "killall"}]

\* C15 as stated: a command that matches a denylist pattern is rejected
\* with the risk level of the tier the pattern is configured under, and the
\* pattern is among blocked_patterns.
C15_DenylistTierDecides ==
    \A level \in RiskLevel : \A pattern \in denylist[level] :
        (ChkDone /\ CompleteConfig /\ WithinLength /\ Contains(Lower(ChkStripped), pattern)) =>
            /\ Unsafe(chk_result, level)
            /\ \E i \in 1..Len(chk_result.blocked_patterns) : chk_result.blocked_patterns[i] = pattern

(***************************************************************************)
(* Threads share one SafetyChecker: concurrent check_command calls and     *)
(* update_config (specification SpecShared)                                *)
(***************************************************************************)
\* check_command evaluations begun in one run
MaxCalls == 2
\* update_config calls in one run
MaxUpdates == 1

SharedCommands == {"ssh user@host", "echo 'unclosed"}
NewConfigs == {[allow_network |-> FALSE], [allow_network |-> TRUE]}

\* dict.update
update_config(cfg, new_config) ==
    [k \in DOMAIN cfg \cup DOMAIN new_config |->
        IF k \in DOMAIN new_config THEN new_config[k] ELSE cfg[k]]

\* check_command up to its first stage: the empty test, the strip and the
\* length test; Passed when the command goes on to the stages
check_command_entry(cmd, cfg) ==
    IF cmd = "" \/ Strip(cmd) = ""
    THEN SafetyResult(FALSE, MEDIUM, "Empty command provided", <<>>, <<>>)
    ELSE IF ~HasKey(cfg, "max_command_length") THEN Raised("KeyError")
    ELSE IF Len(Strip(cmd)) > cfg["max_command_length"]
    THEN SafetyResult(FALSE, MEDIUM, ("Command too long (" \o ToString(Len(Strip(cmd)))) \o " chars)",
                      <<>>, <<>>)
    ELSE Passed("")

\* the dangerous-pattern stage reads nothing but the command and the pattern
\* table: its verdicts on the commands the threads submit
dangerous_check == [cmd \in SharedCommands |-> _check_dangerous_patterns(Strip(cmd))]

\* the statements of check_command in order, one stage a step
check_command_stage(k, cmd, cfg) ==
    CASE k = 1 -> check_command_entry(cmd, cfg)
      [] k = 2 -> dangerous_check[cmd]
      [] k = 3 -> _check_privilege_commands(Strip(cmd), cfg)
      [] k = 4 -> _check_destructive_commands(Strip(cmd), cfg)
      [] k = 5 -> _check_network_commands(Strip(cmd), cfg)
      [] k = 6 -> _check_file_paths(Strip(cmd), cfg)
      [] k = 7 -> _check_wildcards(Strip(cmd), cfg)

SharedInit ==
    /\ config = SafetyChecker_init(NoConfig)
    /\ chk_cmd = ""
    /\ chk_result = NoResult
    /\ RunnerIdle
    /\ RbmIdle
    /\ ThreadsIdle
    /\ NoCall
    /\ CliIdle

\* an evaluation that ends now; overlapped: another thread is inside check_command
Evaluation(c, r) ==
    [command |-> c.command, result |-> r, begun |-> c.begun, ended |-> epoch,
     before |-> c.before, after |-> config,
     overlapped |-> Cardinality({u \in Callers : callers[u].pc # 0}) > 1]

\* a thread calls check_command
CallBegin(t, cmd) ==
    /\ callers[t].pc = 0
    /\ Cardinality({u \in Callers : callers[u].pc # 0}) + Cardinality(log) < MaxCalls
    /\ callers' = [callers EXCEPT ![t] = [pc |-> 1, command |-> cmd, begun |-> epoch, before |-> config]]
    /\ UNCHANGED <<config, epoch, log>>

\* mutant: the call clamps max_command_length to the command it has seen
CallStep_clamps_length(t) ==
    /\ callers[t].pc # 0
    /\ LET c == callers[t]
           r == check_command_stage(c.pc, c.command, config) IN
       IF Decides(r)
       THEN /\ log' = log \cup {Evaluation(c, r)}
            /\ callers' = [callers EXCEPT ![t] = [pc |-> 0]]
            /\ config' = config
       ELSE IF c.pc = 7  \* the wildcard stage, the last one
       THEN /\ log' = log \cup
                  {Evaluation(c, SafetyResult(TRUE, LOW, "Command passed all safety checks", <<>>, <<>>))}
            /\ callers' = [callers EXCEPT ![t] = [pc |-> 0]]
            /\ config' = update_config(config, [max_command_length |-> Len(Strip(c.command))])
       ELSE /\ callers' = [callers EXCEPT ![t].pc = c.pc + 1]
            /\ UNCHANGED <<config, log>>
    /\ UNCHANGED epoch

\* the thread's call runs its next stage; it returns the stage's result if
\* that is not safe (or leaves by the exception) and the final result after
\* the last stage
CallStep(t) ==
    /\ callers[t].pc # 0
    /\ LET c == callers[t]
           r == check_command_stage(c.pc, c.command, config) IN
       IF Decides(r)
       THEN /\ log' = log \cup {Evaluation(c, r)}
            /\ callers' = [callers EXCEPT ![t] = [pc |-> 0]]
       ELSE IF c.pc = 7  \* the wildcard stage, the last one
       THEN /\ log' = log \cup
                  {Evaluation(c, SafetyResult(TRUE, LOW, "Command passed all safety checks", <<>>, <<>>))}
            /\ callers' = [callers EXCEPT ![t] = [pc |-> 0]]
       ELSE /\ callers' = [callers EXCEPT ![t].pc = c.pc + 1]
            /\ UNCHANGED log
    /\ UNCHANGED <<config, epoch>>

UpdateConfig(new_config) ==
    /\ epoch < MaxUpdates
    /\ config' = update_config(config, new_config)
    /\ epoch' = epoch + 1
    /\ UNCHANGED <<callers, log>>

SharedNext ==
    \/ \E t \in Callers : \E cmd \in SharedCommands :
           CallBegin(t, cmd) /\ UNCHANGED <<chk_cmd, chk_result, runVars, rbmVars, cliVars, fnVars,
                                              denylist_json, adder, reader>>
    \/ \E t \in Callers :
           CallStep(t) /\ UNCHANGED <<chk_cmd, chk_result, runVars, rbmVars, cliVars, fnVars,
                                     denylist_json, adder, reader>>
    \/ \E new_config \in NewConfigs :
           UpdateConfig(new_config) /\ UNCHANGED <<chk_cmd, chk_result, runVars, rbmVars, cliVars, fnVars,
                                                  denylist_json, adder, reader>>

SpecShared == SharedInit /\ [][SharedNext]_vars

\* no update_config call between the start and the end of the evaluation
Undisturbed(e) == e.begun = e.ended

\* C14: check_command is deterministic and read-only. Two evaluations of
\* the same command with no update_config call between them give equal
\* verdicts (or leave by the same exception), and an evaluation leaves the
\* configuration as it found it, however the calls of concurrent threads
\* are interleaved.
C14_DeterministicAndReadOnly ==
    /\ \A e \in log : Undisturbed(e) => e.before = e.after
    /\ \A e1 \in log : \A e2 \in log :
           (e1.command = e2.command /\ Undisturbed(e1) /\ Undisturbed(e2) /\ e1.begun = e2.begun) =>
               e1.result = e2.result

\* after an update_config two threads have evaluated the same command in
\* overlapping calls and got the same verdict, a rejection that depends on
\* the configuration
C14_Witness ==
    \E e1 \in log : \E e2 \in log :
        /\ e1 # e2 /\ e1.command = e2.command /\ Undisturbed(e1) /\ Undisturbed(e2)
        /\ e1.begun = e2.begun /\ e1.begun > 0
        /\ e1.overlapped /\ ~e2.overlapped
        /\ e1.result = e2.result /\ Unsafe(e1.result, MEDIUM)
        /\ e1.result # check_command(e1.command, SafetyChecker_init(NoConfig))

(***************************************************************************)
(* A caller scores one command with predictive_risk_assessment             *)
(* (specification SpecScore)                                               *)
(***************************************************************************)
\* context=None
NoContext == [none |-> TRUE]

Contexts ==
    {NoContext, <<>>, [disk_status |-> [ok |-> TRUE]], [disk_status |-> [ok |-> FALSE]]}

ScoreCommands ==
    {"ls -la", "sudo ls", "rm file.txt", "rm", "dd if=a of=b", "echo x | sh", "cat a | grep b",
     "git push origin", "sudo rm file.txt", "mkfs /dev/sda1", "fdisk -l", "shutdown now",
     "sudo mkfs /dev/sda1", "rm a | sh", "sudo rm a | sh", "sudo fdisk -l | sh",
     "sudo dd if=a | sh; mkfs"}

\* the additive score
risk_score(command, context) ==
    (IF Contains(command, "rm ") \/ Contains(command, "dd ") THEN 3 ELSE 0)
  + (IF Contains(command, "sudo") THEN 2 ELSE 0)
  + (IF Contains(command, "|") /\ Contains(command, "sh") THEN 4 ELSE 0)
  + (IF \E danger \in {"mkfs", "fdisk", "shutdown"} : Contains(command, danger) THEN 5 ELSE 0)
  + (IF /\ context # NoContext
        /\ "disk_status" \in DOMAIN context
        /\ ~context["disk_status"]["ok"]
     THEN 2 ELSE 0)

\* the fields of the SafetyResult the thresholds fix
Scored(is_safe, risk_level, score) == [is_safe |-> is_safe, risk_level |-> risk_level, score |-> score]

\* mutant: a score of exactly 5 is still advisory
predictive_risk_assessment_high_above_5(command, context) ==
    LET score == risk_score(command, context) IN
    IF score >= 8 THEN Scored(FALSE, CRITICAL, score)
    ELSE IF score > 5 THEN Scored(FALSE, HIGH, score)
    ELSE IF score >= 3 THEN Scored(TRUE, MEDIUM, score)
    ELSE Scored(TRUE, LOW, score)

predictive_risk_assessment(command, context) ==
    LET score == risk_score(command, context) IN
    IF score >= 8 THEN Scored(FALSE, CRITICAL, score)
    ELSE IF score >= 5 THEN Scored(FALSE, HIGH, score)
    ELSE IF score >= 3 THEN Scored(TRUE, MEDIUM, score)
    ELSE Scored(TRUE, LOW, score)

ScoreInit ==
    /\ call_args \in [command : ScoreCommands, context : Contexts]
    /\ call_ret = NoResult
    /\ config = SafetyChecker_init(NoConfig)
    /\ chk_cmd = ""
    /\ chk_result = NoResult
    /\ RunnerIdle
    /\ RbmIdle
    /\ ThreadsIdle
    /\ CliIdle

CallPredictive ==
    /\ call_ret = NoResult
    /\ call_ret' = predictive_risk_assessment(call_args.command, call_args.context)
    /\ UNCHANGED call_args
    /\ UNCHANGED <<chkVars, runVars, rbmVars, cliVars, thrVars>>

ScoreNext == CallPredictive

SpecScore == ScoreInit /\ [][ScoreNext]_vars

ScoreDone == call_ret # NoResult
Bonus(present, points) == IF present THEN points ELSE 0
DiskPressure == [disk_status |-> [ok |-> FALSE]]
UnderPressure ==
    call_args.context # NoContext /\ call_args.context # <<>> /\ ~call_args.context["disk_status"]["ok"]
\* the score the claim's table gives the call
TableScore ==
    Bonus(Contains(call_args.command, "rm ") \/ Contains(call_args.command, "dd "), 3)
  + Bonus(Contains(call_args.command, "sudo"), 2)
  + Bonus(Contains(call_args.command, "|") /\ Contains(call_args.command, "sh"), 4)
  + Bonus(Contains(call_args.command, "mkfs") \/ Contains(call_args.command, "fdisk")
            \/ Contains(call_args.command, "shutdown"), 5)
  + Bonus(UnderPressure, 2)

ComplianceMode == HasKey(config, "compliance_mode") /\ config["compliance_mode"]

\* C17 as stated: with compliance_mode enabled a command that passes every
\* other stage and triggers at least one compliance rule is rejected at
\* HIGH; with compliance_mode disabled the rules do not change the verdict.
C17_ComplianceViolationIsHigh ==
    (ChkReturned /\ CompleteConfig /\ HasKey(config, "compliance_mode") /\ PipelineFailing = {}
       /\ predictive_risk_assessment(ChkStripped, NoContext).is_safe) =>
        IF config["compliance_mode"] /\ check_compliance(ChkStripped) # <<>>
        THEN Unsafe(chk_result, HIGH)
        ELSE chk_result.is_safe

(***************************************************************************)
(* Claims about CommandRunner.execute (specification SpecRunner)           *)
(***************************************************************************)
\* C4: when execute has returned a TIMEOUT result, its exit_code is -1 and
\* the spawned process group is no longer alive: it was terminated and reaped.
C4_TimeoutLeavesNoLiveProcess ==
    (rpc = "returned" /\ run_result.status = TIMEOUT) =>
        (run_result.exit_code = -1 /\ process.state = "reaped")

\* C5: an interrupt that arrives while execute waits on the running process
\* makes execute return INTERRUPTED with exit_code -2, the process group
\* having been signalled and no longer running.
C5_InterruptTerminatesProcess ==
    [][(rpc = "waiting" /\ process.state = "running" /\ rpc' = "returned"
          /\ run_result'.status = INTERRUPTED) =>
         (run_result'.exit_code = -2 /\ signals' # <<>> /\ process'.state # "running")]_vars

Statuses == {SUCCESS, FAILED, TIMEOUT, INTERRUPTED, ERROR}
ExecuteReturned == rpc = "returned"

Completed == ExecuteReturned /\ run_result.status \in {SUCCESS, FAILED}
EndsWith(s, suffix) ==
    Len(s) >= Len(suffix) /\ SubSeq(s, Len(s) - Len(suffix) + 1, Len(s)) = suffix
\* what holds of a returned stream whatever it ends with
Bounded(raw, out) ==
    /\ Len(out) <= SmallOutputSize + Len(truncation_marker)
    /\ Len(raw) > SmallOutputSize =>
           (SubSeq(out, 1, SmallOutputSize) = SubSeq(raw, 1, SmallOutputSize))
    /\ Len(raw) <= SmallOutputSize => out = raw

\* C24 as stated: the returned stdout and stderr are at most max_output_size
\* plus the marker long, end with the marker exactly when the raw output
\* exceeded max_output_size, then begin with its first max_output_size
\* units, and are the raw output otherwise.
C24_MarkerExactlyWhenTruncated ==
    Completed =>
        /\ Bounded(process.stdout, run_result.stdout)
        /\ Bounded(process.stderr, run_result.stderr)
        /\ EndsWith(run_result.stdout, truncation_marker) <=> (Len(process.stdout) > SmallOutputSize)
        /\ EndsWith(run_result.stderr, truncation_marker) <=> (Len(process.stderr) > SmallOutputSize)

\* C24 amended: the marker ends every stream that was cut; a stream within
\* the ceiling is returned unchanged, and so ends with the text of the marker
\* only when the process wrote that text itself.
C24_MarkerWheneverTruncated ==
    Completed =>
        /\ Bounded(process.stdout, run_result.stdout)
        /\ Bounded(process.stderr, run_result.stderr)
        /\ Len(process.stdout) > SmallOutputSize => EndsWith(run_result.stdout, truncation_marker)
        /\ Len(process.stderr) > SmallOutputSize => EndsWith(run_result.stderr, truncation_marker)
        /\ (EndsWith(run_result.stdout, truncation_marker) /\ Len(process.stdout) <= SmallOutputSize) =>
               EndsWith(process.stdout, truncation_marker)
        /\ (EndsWith(run_result.stderr, truncation_marker) /\ Len(process.stderr) <= SmallOutputSize) =>
               EndsWith(process.stderr, truncation_marker)

\* a stdout beyond the ceiling came back cut with the marker, next to a
\* stderr within it
C24_Witness ==
    /\ Completed
    /\ Len(process.stdout) > SmallOutputSize
    /\ run_result.stdout = SubSeq(process.stdout, 1, SmallOutputSize) \o truncation_marker
    /\ run_result.stderr = process.stderr

SamplerStarted == monitor.pc # "none"

\* C26 as stated: when execute has returned from a call that started a
\* sampler, the sampler has been told to stop, and from then on it takes no
\* sample and writes nothing to the accumulator; whatever the sampler does,
\* the status of the result stays.
C26_SamplerEndsWithCall ==
    /\ []((ExecuteReturned /\ SamplerStarted) => monitor.stop_monitoring)
    /\ [][(ExecuteReturned /\ SamplerStarted) =>
            /\ monitor'.samples = monitor.samples
            /\ monitor'.max_memory_mb = monitor.max_memory_mb
            /\ monitor'.max_cpu_percent = monitor.max_cpu_percent]_vars
    /\ [][(MonitorCheck \/ MonitorSample) => UNCHANGED run_result]_vars

\* what does hold: the stop flag is set on every exit path and the sampler
\* never touches the result
C26_SamplerIsToldToStop ==
    /\ []((ExecuteReturned /\ SamplerStarted) => monitor.stop_monitoring)
    /\ [][(MonitorCheck \/ MonitorSample) => UNCHANGED run_result]_vars

(***************************************************************************)
(* main (aishell.py): the per-command loop                                 *)
(*                                                                         *)
(* split_commands and detect_files_for_backup are called by main but are   *)
(* not in executor/safety_checker.py; they follow sections 4.4 and 4.6 of  *)
(* the specification.  The checker main builds gets only compliance_mode,  *)
(* so its check_command raises KeyError (MainConfigs); tests/test_cli.py   *)
(* runs main with a substituted checker, which the complete configurations *)
(* of CliConfigs stand for.  verbose is off.                               *)
(***************************************************************************)
Separators == {"&&", ";", "|"}

\* maximal runs of non-separator tokens, each joined by single spaces
RECURSIVE SplitTokens(_, _, _, _, _)
SplitTokens(words, i, cur, has, out) ==
    IF i > Len(words) THEN (IF has THEN Append(out, cur) ELSE out)
    ELSE IF words[i] \in Separators
         THEN SplitTokens(words, i + 1, "", FALSE, IF has THEN Append(out, cur) ELSE out)
    ELSE SplitTokens(words, i + 1, IF has THEN (cur \o " ") \o words[i] ELSE words[i], TRUE, out)

\* shlex.split raises ValueError on an unclosed quotation
SplitRaises(command_string) == ~ShlexSplit(command_string).ok

\* the words of a command under shell quoting, as written: a word keeps its
\* quotes and escapes (echo 'test' is the two words echo and 'test')
RECURSIVE RawFrom(_, _, _, _, _, _, _)
RawFrom(s, i, st, esc, tok, has, words) ==
    IF i > Len(s) THEN
        IF st \in {"'", "\"", "\\"} THEN [ok |-> FALSE, words |-> <<>>]
        ELSE [ok |-> TRUE, words |-> IF has THEN Append(words, tok) ELSE words]
    ELSE
    LET c == Ch(s, i) IN
    CASE st = " " ->
           IF IsSpace(c) THEN RawFrom(s, i + 1, " ", esc, "", FALSE, words)
           ELSE IF c = "\\" THEN RawFrom(s, i + 1, "\\", "a", c, TRUE, words)
           ELSE IF c \in {"'", "\""} THEN RawFrom(s, i + 1, c, esc, c, TRUE, words)
           ELSE RawFrom(s, i + 1, "a", esc, c, TRUE, words)
      [] st = "a" ->
           IF IsSpace(c) THEN RawFrom(s, i + 1, " ", esc, "", FALSE, Append(words, tok))
           ELSE IF c \in {"'", "\""} THEN RawFrom(s, i + 1, c, esc, tok \o c, TRUE, words)
           ELSE IF c = "\\" THEN RawFrom(s, i + 1, "\\", "a", tok \o c, TRUE, words)
           ELSE RawFrom(s, i + 1, "a", esc, tok \o c, TRUE, words)
      [] st \in {"'", "\""} ->
           IF c = st THEN RawFrom(s, i + 1, "a", esc, tok \o c, TRUE, words)
           ELSE IF c = "\\" /\ st = "\"" THEN RawFrom(s, i + 1, "\\", st, tok \o c, TRUE, words)
           ELSE RawFrom(s, i + 1, st, esc, tok \o c, TRUE, words)
      [] st = "\\" -> RawFrom(s, i + 1, esc, esc, tok \o c, TRUE, words)

RawWords(s) == RawFrom(s, 1, " ", "a", "", FALSE, <<>>)

\* mutant: only the first fragment is returned
split_commands_first_only(command_string) ==
    LET fragments == SplitTokens(RawWords(command_string).words, 1, "", FALSE, <<>>)
    IN  IF fragments = <<>> THEN <<>> ELSE <<fragments[1]>>

split_commands(command_string) ==
    SplitTokens(RawWords(command_string).words, 1, "", FALSE, <<>>)

\* lines 99-105: the fragments of every generated command, in order
RECURSIVE SplitAll(_, _, _)
SplitAll(generated_commands, i, out) ==
    IF i > Len(generated_commands) THEN out
    ELSE SplitAll(generated_commands, i + 1, out \o split_commands(generated_commands[i]))

\* the value of a key=value argument, the argument itself otherwise
RECURSIVE FirstEq(_, _)
FirstEq(a, i) == IF i > Len(a) THEN 0 ELSE IF Ch(a, i) = "=" THEN i ELSE FirstEq(a, i + 1)
ArgPath(a) == IF FirstEq(a, 1) = 0 THEN a ELSE SubSeq(a, FirstEq(a, 1) + 1, Len(a))

\* the existing regular files among the non-flag arguments of a command
\* whose first token is in the destructive-command set
detect_files_for_backup(command, f) ==
    LET t == ShlexSplit(Strip(command)) IN
    IF ~t.ok \/ t.words = <<>> THEN <<>>
    ELSE IF Lower(t.words[1]) \notin _load_destructive_commands THEN <<>>
    ELSE LET args == SelectSeq(Tail(t.words), LAMBDA a : a # "" /\ Ch(a, 1) # "-")
             paths == [i \in 1..Len(args) |-> ArgPath(args[i])]
         IN SelectSeq(paths, LAMBDA p : IsFile(f, p))

\* console.print renders its text as markup: a closing tag with nothing to
\* close raises rich.errors.MarkupError
MarkupError(text) == Contains(text, "[/]")
\* str(e) of that error quotes the tag
MarkupErrorText == "closing tag '[/]' at position 0 has nothing to close"
\* str(e) of the FileNotFoundError of shutil.copy2
FileNotFoundText == "[Errno 2] No such file or directory"

\* lines 121, 134: the verdict that blocks a command
Blocked(r) == ~r.is_safe /\ r.risk_level \in {"critical", "high"}

\* how often the operator edits in one session
MaxEdits == 1
\* the seconds the clock runs through
MaxClock == 1

CliCommands ==
    {"ls -la", "", "rm -rf /", "sudo ls", "wget file.txt", "rm /d1/f", "rm /d1/f /d2/f",
     "rm /d1/f ; rm /d2/f", "ls -la && rm -rf /", "echo 'unclosed", "echo [/]"}

\* what llm_handler.generate_command returns: a list of one command, which
\* --split-multi may turn into several
GeneratedCommands == {<<c>> : c \in CliCommands}

\* what the operator types at the Edit prompt
EditedCommands == {"ls -la", "rm -rf /", "rm /d2/f"}

\* line 67, and the configurations of a substituted checker
MainConfigs == {[compliance_mode |-> b] : b \in BOOLEAN}
CliConfigs ==
    MainConfigs \cup {_get_default_config, [_get_default_config EXCEPT !.allow_network = FALSE]}

\* main up to line 98: the flags, the checker, the generated commands
CliInit ==
    /\ config \in {SafetyChecker_init(c) : c \in CliConfigs}
    /\ chk_cmd = ""
    /\ chk_result = NoResult
    /\ RunnerIdle
    /\ RbmIdle
    /\ ThreadsIdle
    /\ NoCall
    /\ opts \in [dry_run : BOOLEAN, no_confirm : BOOLEAN, split_multi : BOOLEAN]
    /\ all_commands \in GeneratedCommands
    /\ idx = 0
    /\ generated_command = ""
    /\ safety_result = NoResult
    /\ checked = ""
    /\ executed = ""
    /\ calls = <<>>
    /\ edits = 0
    /\ cli = "start"

\* lines 99-105; a ValueError of the splitter ends main (lines 234-237)
CliSplit ==
    /\ cli = "start"
    /\ IF ~opts.split_multi THEN cli' = "for" /\ UNCHANGED all_commands
       ELSE IF \E i \in 1..Len(all_commands) : SplitRaises(all_commands[i])
            THEN cli' = "exit" /\ UNCHANGED all_commands
       ELSE cli' = "for" /\ all_commands' = SplitAll(all_commands, 1, <<>>)
    /\ UNCHANGED <<opts, idx, generated_command, safety_result, checked, executed, calls, edits>>
    /\ UNCHANGED <<chkVars, thrVars, fnVars, runVars, rbmVars>>

\* lines 107-112: the next command is shown (main is left by the MarkupError
\* of a command that does not render), or main ends; the result of the
\* previous command is not read again
CliFor ==
    /\ cli = "for"
    /\ IF idx < Len(all_commands)
       THEN /\ idx' = idx + 1
            /\ generated_command' = all_commands[idx + 1]
            /\ calls' = <<>>
            /\ run_result' = NoRun
            /\ cli' = IF MarkupError(all_commands[idx + 1]) THEN "crash" ELSE "check"
       ELSE /\ cli' = "done"
            /\ UNCHANGED <<idx, generated_command, calls, run_result>>
    /\ UNCHANGED <<opts, all_commands, safety_result, checked, executed, edits>>
    /\ UNCHANGED <<rpc, process, current_process, monitor, signals>>
    /\ UNCHANGED <<chkVars, thrVars, fnVars, rbmVars>>

\* lines 119-149: the check, the block, the dry run, --no-confirm
CliCheck ==
    /\ cli = "check"
    /\ LET r == check_command(generated_command, config) IN
       /\ safety_result' = r
       /\ checked' = generated_command
       /\ cli' = IF IsRaise(r) THEN "exit"
                 ELSE IF Blocked(r) THEN "for"
                 ELSE IF opts.dry_run THEN "for"
                 ELSE IF opts.no_confirm THEN "backup"
                 ELSE "prompt"
    /\ UNCHANGED <<opts, all_commands, idx, generated_command, executed, calls, edits>>
    /\ UNCHANGED <<chkVars, thrVars, fnVars, runVars, rbmVars>>

\* mutant: an Edit runs the edited command at once, without the check of line 119
CliChoose_edit_runs_unchecked ==
    /\ cli = "prompt"
    /\ \E choice \in {"y", "n", "e", "i"} :
          /\ choice = "e" => edits < MaxEdits
          /\ generated_command' \in IF choice = "e" THEN EditedCommands ELSE {generated_command}
          /\ edits' = IF choice = "e" THEN edits + 1 ELSE edits
          /\ cli' = IF choice = "n" THEN "for"
                    ELSE IF choice = "e" THEN "backup"
                    ELSE IF choice = "i"
                         THEN (IF MarkupError(generated_command) THEN "crash" ELSE "check")
                    ELSE "backup"
    /\ UNCHANGED <<opts, all_commands, idx, safety_result, checked, executed, calls>>
    /\ UNCHANGED <<chkVars, thrVars, fnVars, runVars, rbmVars>>

\* lines 151-185: the operator's answer to "Proceed?"
CliChoose ==
    /\ cli = "prompt"
    /\ \E choice \in {"y", "n", "e", "i"} :
          /\ choice = "e" => edits < MaxEdits
          /\ generated_command' \in IF choice = "e" THEN EditedCommands ELSE {generated_command}
          /\ edits' = IF choice = "e" THEN edits + 1 ELSE edits
          /\ cli' = IF choice = "n" THEN "for"
                    ELSE IF choice = "e" THEN "check"
                    ELSE IF choice = "i"
                         THEN (IF MarkupError(generated_command) THEN "crash" ELSE "check")
                    ELSE "backup"
    /\ UNCHANGED <<opts, all_commands, idx, safety_result, checked, executed, calls>>
    /\ UNCHANGED <<chkVars, thrVars, fnVars, runVars, rbmVars>>

\* lines 188-192: the files the command names are backed up
CliBackup ==
    /\ cli = "backup"
    /\ LET files_to_backup == detect_files_for_backup(generated_command, fs)
           done == backup_files(Manager(fs, backup_dir, backups), files_to_backup, now)
       IN IF files_to_backup # <<>>
          THEN /\ backup_dir' = done.m.backup_dir
               /\ backups' = done.m.backups
               /\ calls' = Append(calls, "backup_files")
          ELSE UNCHANGED <<backup_dir, backups, calls>>
    /\ cli' = "run"
    /\ UNCHANGED <<fs, now>>
    /\ UNCHANGED <<opts, all_commands, idx, generated_command, safety_result, checked, executed,
                   edits>>
    /\ UNCHANGED <<chkVars, thrVars, fnVars, runVars>>

\* line 196: command_runner.execute(generated_command) is called
CliExecute ==
    /\ cli = "run"
    /\ ExecuteBegin
    /\ executed' = generated_command
    /\ calls' = Append(calls, "execute")
    /\ cli' = "executing"
    /\ UNCHANGED <<opts, all_commands, idx, generated_command, safety_result, checked, edits>>
    /\ UNCHANGED <<chkVars, thrVars, fnVars, rbmVars>>

\* the running command changes a file, removes it or removes its directory
ProcessWrites ==
    /\ rpc = "waiting"
    /\ process.state = "running"
    /\ \E p \in Paths : \E f \in FileStates : fs' = [fs EXCEPT ![p] = f]
    /\ UNCHANGED <<backup_dir, backups, now>>
    /\ UNCHANGED <<chkVars, thrVars, fnVars, runVars, cliVars>>

\* a second passes while the command runs; only backup_file reads the clock,
\* so when exactly it passes makes no difference
Tick ==
    /\ rpc = "call"
    /\ now < MaxClock
    /\ now' = now + 1
    /\ UNCHANGED <<fs, backup_dir, backups>>
    /\ UNCHANGED <<chkVars, thrVars, fnVars, runVars, cliVars>>

\* lines 224-229: the handler prints str(e) as markup, which raises again for
\* a MarkupError, also in the handler of lines 234-237, and main is left by
\* the exception; otherwise restore_all runs, and an exception it raises
\* ends main at lines 234-237
ExceptHandler(m, text) ==
    IF MarkupError(text)
    THEN [m |-> m, calls |-> <<>>, cli |-> "crash"]
    ELSE LET r == restore_all(m) IN
         [m |-> r.m, calls |-> <<"restore_all">>, cli |-> IF r.raised THEN "exit" ELSE "for"]

\* lines 198-229: what main does with the result of execute
AfterExecute(m, result) ==
    IF result.success
    THEN IF result.stdout # "" /\ MarkupError(result.stdout)
         THEN ExceptHandler(m, MarkupErrorText)
         ELSE [m |-> clear_backups(m), calls |-> <<"clear_backups">>, cli |-> "for"]
    ELSE IF MarkupError(result.stderr)
         THEN ExceptHandler(m, MarkupErrorText)
         ELSE LET r == restore_all(m) IN
              IF r.raised
              THEN LET h == ExceptHandler(r.m, FileNotFoundText) IN
                   [h EXCEPT !.calls = <<"restore_all">> \o @]
              ELSE [m |-> r.m, calls |-> <<"restore_all">>, cli |-> "for"]

\* execute has returned (lines 196-229); the process and the sampler of the
\* call are not looked at again
CliExecuteReturned ==
    /\ cli = "executing"
    /\ rpc = "returned"
    /\ LET a == AfterExecute(Manager(fs, backup_dir, backups), run_result) IN
       /\ fs' = a.m.fs
       /\ backup_dir' = a.m.backup_dir
       /\ backups' = a.m.backups
       /\ calls' = calls \o a.calls
       /\ cli' = a.cli
    /\ rpc' = "idle"
    /\ process' = NoProcess
    /\ monitor' = NoMonitor
    /\ signals' = <<>>
    /\ UNCHANGED <<current_process, run_result, now>>
    /\ UNCHANGED <<opts, all_commands, idx, generated_command, safety_result, checked, executed,
                   edits>>
    /\ UNCHANGED <<chkVars, thrVars, fnVars>>

\* main never reads resource_usage: the steps of the sampler thread are left
\* to SpecRunner
CliNext ==
    \/ CliSplit
    \/ CliFor
    \/ CliCheck
    \/ CliChoose
    \/ CliBackup
    \/ CliExecute
    \/ Spawn /\ UNCHANGED <<chkVars, thrVars, fnVars, rbmVars, cliVars>>
    \/ SpawnFails /\ UNCHANGED <<chkVars, thrVars, fnVars, rbmVars, cliVars>>
    \/ StartMonitoring /\ UNCHANGED <<chkVars, thrVars, fnVars, rbmVars, cliVars>>
    \/ ProcessExits /\ UNCHANGED <<chkVars, thrVars, fnVars, rbmVars, cliVars>>
    \/ CommunicateReturns /\ UNCHANGED <<chkVars, thrVars, fnVars, rbmVars, cliVars>>
    \/ Timeout /\ UNCHANGED <<chkVars, thrVars, fnVars, rbmVars, cliVars>>
    \/ InterruptWhileWaiting /\ UNCHANGED <<chkVars, thrVars, fnVars, rbmVars, cliVars>>
    \/ InterruptBeforeWait /\ UNCHANGED <<chkVars, thrVars, fnVars, rbmVars, cliVars>>
    \/ TerminateSignal /\ UNCHANGED <<chkVars, thrVars, fnVars, rbmVars, cliVars>>
    \/ GraceWaitReturns /\ UNCHANGED <<chkVars, thrVars, fnVars, rbmVars, cliVars>>
    \/ GraceExpires /\ UNCHANGED <<chkVars, thrVars, fnVars, rbmVars, cliVars>>
    \/ ProcessWrites
    \/ Tick
    \/ CliExecuteReturned

SpecCli == CliInit /\ [][CliNext]_vars

(***************************************************************************)
(* Claims about main (specification SpecCli)                               *)
(***************************************************************************)
RECURSIVE IndexOf(_, _, _)
IndexOf(s, x, i) == IF i > Len(s) THEN 0 ELSE IF s[i] = x THEN i ELSE IndexOf(s, x, i + 1)

\* main has called command_runner.execute for the current command
ExecuteCalled == IndexOf(calls, "execute", 1) # 0

\* C1: a command is passed to CommandRunner.execute only if the latest
\* check_command call was made on that same (possibly edited) string and did
\* not reject it at critical or high, under every flag combination and every
\* sequence of operator choices; a command rejected at critical or high is
\* never executed.
C1_ExecutedOnlyAfterPassingCheck ==
    (cli = "executing" /\ rpc = "call") =>
        LET r == check_command(executed, config) IN
        /\ ~IsRaise(r)
        /\ ~Blocked(r)
        /\ checked = executed
        /\ safety_result = r

\* an edited command, checked again, is running
C1_Witness ==
    /\ cli = "executing"
    /\ edits > 0
    /\ executed \in EditedCommands
    /\ executed # all_commands[idx]
    /\ checked = executed

\* main is done with a command it executed
CommandFinished == ExecuteCalled /\ cli \in {"for", "done", "exit", "crash"}

\* the follow-ups main ran after execute
FollowUps == {calls[i] : i \in (IndexOf(calls, "execute", 1) + 1)..Len(calls)}

\* C2 as stated: backup_files completes before execute starts, and after
\* execute exactly one follow-up runs: clear_backups if and only if the
\* result reports success, restore_all if it reports failure.
C2_ExactlyOneFollowUp ==
    /\ (cli = "run" /\ detect_files_for_backup(generated_command, fs) # <<>>) =>
          IndexOf(calls, "backup_files", 1) # 0
    /\ ExecuteCalled => IndexOf(calls, "backup_files", 1) < IndexOf(calls, "execute", 1)
    /\ CommandFinished =>
          /\ Cardinality(FollowUps) = 1
          /\ ("clear_backups" \in FollowUps) <=> run_result.success
          /\ ~run_result.success => "restore_all" \in FollowUps

(***************************************************************************)
(* A caller splits one command string with split_commands                  *)
(* (specification SpecSplit)                                               *)
(***************************************************************************)
\* words a command string is put together from, at most
MaxPieces == 3

Pieces == {"ls", "-la", "&&", ";", "|", "'a ; b'", "\"x|y\""}

RECURSIVE JoinWords(_)
JoinWords(ws) ==
    IF ws = <<>> THEN "" ELSE IF Len(ws) = 1 THEN ws[1] ELSE (ws[1] \o " ") \o JoinWords(Tail(ws))

SplitInputs ==
    {JoinWords(ws) : ws \in UNION {[1..n -> Pieces] : n \in 0..MaxPieces}}
        \cup {"cd /tmp && ls -la ; echo 'test' | cat", "echo \"hello world\" && ls -la",
              "  ls   -la  ;  ", "echo 'unclosed", "a&&b"}

SplitInit ==
    /\ call_args \in [command_string : SplitInputs]
    /\ call_ret = NoResult
    /\ config = SafetyChecker_init(NoConfig)
    /\ chk_cmd = ""
    /\ chk_result = NoResult
    /\ RunnerIdle
    /\ RbmIdle
    /\ ThreadsIdle
    /\ CliIdle

CallSplit ==
    /\ call_ret = NoResult
    /\ call_ret' = IF SplitRaises(call_args.command_string) THEN Raised("ValueError")
                   ELSE [fragments |-> split_commands(call_args.command_string)]
    /\ UNCHANGED call_args
    /\ UNCHANGED <<chkVars, runVars, rbmVars, cliVars, thrVars>>

SplitNext == CallSplit

SpecSplit == SplitInit /\ [][SplitNext]_vars

SplitReturned == call_ret # NoResult /\ ~IsRaise(call_ret)
InputWords == RawWords(call_args.command_string).words
NotSeparator(w) == w \notin Separators
\* the words of all fragments, in order
RECURSIVE FragmentWords(_)
FragmentWords(fragments) ==
    IF fragments = <<>> THEN <<>>
    ELSE RawWords(fragments[1]).words \o FragmentWords(Tail(fragments))
\* positions of the input where a run of non-separator words starts
RunStarts ==
    {i \in 1..Len(InputWords) :
        NotSeparator(InputWords[i]) /\ (i = 1 \/ ~NotSeparator(InputWords[i - 1]))}

\* C18: split_commands returns, in input order, the maximal runs of
\* non-separator words, each run joined by single spaces; the separators
\* &&, ; and | are in no fragment, no fragment is empty, and the empty
\* string gives the empty sequence.
C18_FragmentsAreMaximalRuns ==
    SplitReturned =>
        LET fragments == call_ret.fragments IN
        /\ FragmentWords(fragments) = SelectSeq(InputWords, NotSeparator)
        /\ Len(fragments) = Cardinality(RunStarts)
        /\ \A i \in 1..Len(fragments) :
              /\ fragments[i] # ""
              /\ fragments[i] = JoinWords(RawWords(fragments[i]).words)
              /\ \A j \in 1..Len(RawWords(fragments[i]).words) :
                    NotSeparator(RawWords(fragments[i]).words[j])
        /\ call_args.command_string = "" => fragments = <<>>

\* the four fragments of a command with all three separators and a quoted word
C18_Witness ==
    /\ SplitReturned
    /\ call_args.command_string = "cd /tmp && ls -la ; echo 'test' | cat"
    /\ call_ret.fragments = <<"cd /tmp", "ls -la", "echo 'test'", "cat">>

(***************************************************************************)
(* A caller backs files up, commands change them, the caller restores      *)
(* one (specification SpecRollback)                                        *)
(***************************************************************************)
\* what a path holds when the manager is constructed
Directory == [kind |-> "dir", content |-> "", mode |-> 755]
InitialFiles == {OriginalFile, File("old", 444), Missing, Directory}

\* per path: the file as it was when backup_file last copied it (Missing
\* before) and what has happened to the path since; the number of steps
\* taken; the backup files this manager has written; the last call of
\* backup_file or backup_files with the state it was made in
NoHistory ==
    [saved |-> [p \in Paths |-> Missing], ops |-> [p \in Paths |-> {}], steps |-> 0,
     created |-> {}, last |-> NoResult]

RollbackInit ==
    /\ fs \in [Paths -> InitialFiles]
    /\ backup_dir = <<>>
    /\ backups = <<>>
    /\ now = 0
    /\ call_args = NoHistory
    /\ call_ret = NoResult
    /\ config = SafetyChecker_init(NoConfig)
    /\ chk_cmd = ""
    /\ chk_result = NoResult
    /\ RunnerIdle
    /\ ThreadsIdle
    /\ CliIdle

\* the caller restores after a few steps
MaySetUp == call_ret = NoResult /\ call_args.steps < MaxEdits + 2

Did(p, op) == [call_args EXCEPT !.ops[p] = @ \cup {op}, !.steps = @ + 1]

\* what a call of backup_file or backup_files leaves in the history
Backed(op, file_paths, r, ret, backed_up) ==
    [saved |-> [p \in Paths |->
                   IF DictGet(backed_up, p) # None THEN fs[p] ELSE call_args.saved[p]],
     ops |-> [p \in Paths |->
                   IF DictGet(backed_up, p) # None THEN {} ELSE call_args.ops[p]],
     steps |-> call_args.steps + 1,
     created |-> call_args.created \cup {backed_up[i][2] : i \in 1..Len(backed_up)},
     last |-> [op |-> op, file_paths |-> file_paths, ret |-> ret, backed_up |-> backed_up,
               backup_dir |-> backup_dir, backups |-> backups]]

\* backup_file(p)
RbBackup(p) ==
    /\ MaySetUp
    /\ LET r == backup_file(Manager(fs, backup_dir, backups), p, now) IN
       /\ backup_dir' = r.m.backup_dir
       /\ backups' = r.m.backups
       /\ call_args' = Backed("backup_file", <<p>>, r, r.ret,
                              IF r.ret # None THEN <<<<p, r.ret>>>> ELSE <<>>)
    /\ UNCHANGED <<fs, now, call_ret>>

\* backup_files(file_paths)
RbBackupFiles(file_paths) ==
    /\ MaySetUp
    /\ LET r == backup_files(Manager(fs, backup_dir, backups), file_paths, now) IN
       /\ backup_dir' = r.m.backup_dir
       /\ backups' = r.m.backups
       /\ call_args' = Backed("backup_files", file_paths, r, None, r.backed_up)
    /\ UNCHANGED <<fs, now, call_ret>>

\* a command replaces the content of the file (written in place, or a new
\* file renamed over it as sed -i does, which needs no write bit on it)
RbOverwrite(p) ==
    /\ MaySetUp
    /\ fs[p].kind \in {"file", "missing"}
    /\ fs' = [fs EXCEPT ![p] = File("new", IF fs[p].kind = "file" THEN fs[p].mode ELSE 644)]
    /\ call_args' = Did(p, "overwrite")
    /\ UNCHANGED <<backup_dir, backups, now, call_ret>>

\* chmod
RbChmod(p, mode) ==
    /\ MaySetUp
    /\ fs[p].kind = "file"
    /\ fs[p].mode # mode
    /\ fs' = [fs EXCEPT ![p].mode = mode]
    /\ call_args' = Did(p, "chmod")
    /\ UNCHANGED <<backup_dir, backups, now, call_ret>>

\* rm
RbDelete(p) ==
    /\ MaySetUp
    /\ fs[p].kind = "file"
    /\ fs' = [fs EXCEPT ![p] = Missing]
    /\ call_args' = Did(p, "delete")
    /\ UNCHANGED <<backup_dir, backups, now, call_ret>>

\* rm -r of the directory of the path
RbRemoveDir(p) ==
    /\ MaySetUp
    /\ fs[p].kind # "nodir"
    /\ fs' = [fs EXCEPT ![p] = NoDir]
    /\ call_args' = Did(p, "rmdir")
    /\ UNCHANGED <<backup_dir, backups, now, call_ret>>

\* a backup file disappears from the backup directory (a cleaner of the
\* temporary directory, the operator)
RbUnlinkBackup(b) ==
    /\ MaySetUp
    /\ b \in DOMAIN backup_dir
    /\ backup_dir' = [q \in DOMAIN backup_dir \ {b} |-> backup_dir[q]]
    /\ call_args' = [call_args EXCEPT !.steps = @ + 1]
    /\ UNCHANGED <<fs, backups, now, call_ret>>

RbTick ==
    /\ call_ret = NoResult
    /\ now < MaxClock
    /\ now' = now + 1
    /\ UNCHANGED <<fs, backup_dir, backups, call_args, call_ret>>

\* restore_file(p), by a privileged or an unprivileged process
RbRestore(p, privileged) ==
    /\ call_ret = NoResult
    /\ LET r == restore_file(Manager(fs, backup_dir, backups), p, privileged) IN
       /\ fs' = r.m.fs
       /\ call_ret' = [op |-> "restore_file", file_path |-> p, privileged |-> privileged,
                       raised |-> r.raised, ret |-> r.ret,
                       fs |-> fs, backups |-> backups, backup_dir |-> backup_dir]
    /\ UNCHANGED <<backup_dir, backups, now, call_args>>

\* restore_all()
RbRestoreAll ==
    /\ call_ret = NoResult
    /\ LET r == restore_all(Manager(fs, backup_dir, backups)) IN
       /\ fs' = r.m.fs
       /\ call_ret' = [op |-> "restore_all", raised |-> r.raised, restored |-> r.restored, fs |-> fs]
    /\ UNCHANGED <<backup_dir, backups, now, call_args>>

\* clear_backups(), also after a restore
RbClear ==
    /\ IF call_ret = NoResult THEN TRUE ELSE call_ret.op \in {"restore_file", "restore_all"}
    /\ LET m == clear_backups(Manager(fs, backup_dir, backups)) IN
       /\ backup_dir' = m.backup_dir
       /\ backups' = m.backups
       /\ call_ret' = [op |-> "clear_backups", fs |-> fs]
    /\ UNCHANGED <<fs, now, call_args>>

\* the lists of paths handed to backup_files
PathLists == {<<p>> : p \in Paths} \cup {<<p, q>> : p \in Paths, q \in Paths}

RollbackNext ==
    \/ \E p \in Paths : RbBackup(p) /\ UNCHANGED <<chkVars, runVars, cliVars, thrVars>>
    \/ \E file_paths \in PathLists :
           RbBackupFiles(file_paths) /\ UNCHANGED <<chkVars, runVars, cliVars, thrVars>>
    \/ \E p \in Paths : RbOverwrite(p) /\ UNCHANGED <<chkVars, runVars, cliVars, thrVars>>
    \/ \E p \in Paths : \E mode \in {600, 444} :
           RbChmod(p, mode) /\ UNCHANGED <<chkVars, runVars, cliVars, thrVars>>
    \/ \E p \in Paths : RbDelete(p) /\ UNCHANGED <<chkVars, runVars, cliVars, thrVars>>
    \/ \E p \in Paths : RbRemoveDir(p) /\ UNCHANGED <<chkVars, runVars, cliVars, thrVars>>
    \/ \E b \in DOMAIN backup_dir : RbUnlinkBackup(b) /\ UNCHANGED <<chkVars, runVars, cliVars, thrVars>>
    \/ RbTick /\ UNCHANGED <<chkVars, runVars, cliVars, thrVars>>
    \/ \E p \in Paths : \E privileged \in BOOLEAN :
           RbRestore(p, privileged) /\ UNCHANGED <<chkVars, runVars, cliVars, thrVars>>
    \/ RbRestoreAll /\ UNCHANGED <<chkVars, runVars, cliVars, thrVars>>
    \/ RbClear /\ UNCHANGED <<chkVars, runVars, cliVars, thrVars>>

SpecRollback == RollbackInit /\ [][RollbackNext]_vars

RestoreDone == IF call_ret = NoResult THEN FALSE ELSE call_ret.op = "restore_file"
\* the file was backed up and only overwritten, chmod-ed or deleted since
RoundTrip ==
    /\ RestoreDone
    /\ call_args.saved[call_ret.file_path].kind = "file"
    /\ call_args.ops[call_ret.file_path] # {}
    /\ call_args.ops[call_ret.file_path] \subseteq {"overwrite", "chmod", "delete"}
    /\ DictGet(backups, call_ret.file_path) \in DOMAIN backup_dir

\* C19 as stated: after backup_file of a regular file with content C and
\* mode M and any overwrite, permission change or deletion of it,
\* restore_file returns true and the path holds C with mode M again.
C19_BackupRestoreRoundTrip ==
    RoundTrip =>
        /\ call_ret.raised = None
        /\ call_ret.ret = TRUE
        /\ fs[call_ret.file_path] = call_args.saved[call_ret.file_path]

\* the three cases in which restore_file cannot restore, on the state
\* restore_file was called in
NoMapping == DictGet(call_ret.backups, call_ret.file_path) = None
BackupGone ==
    /\ ~NoMapping
    /\ DictGet(call_ret.backups, call_ret.file_path) \notin DOMAIN call_ret.backup_dir
CopyThrows ==
    /\ ~NoMapping
    /\ ~BackupGone
    /\ copy2_error(call_ret.fs[call_ret.file_path], call_ret.privileged) # None

\* C20 as stated: with no mapping for the path, with the mapped backup file
\* gone, or when the copy throws, restore_file returns false, raises
\* nothing, and the files and the backup mapping are as they were.
C20_FailedRestoreReturnsFalse ==
    (RestoreDone /\ (NoMapping \/ BackupGone \/ CopyThrows)) =>
        /\ call_ret.raised = None
        /\ call_ret.ret = FALSE
        /\ fs = call_ret.fs
        /\ backups = call_ret.backups

\* the two cases without a copy do behave so
C20_NoCopyCasesReturnFalse ==
    (RestoreDone /\ (NoMapping \/ BackupGone)) =>
        /\ call_ret.raised = None
        /\ call_ret.ret = FALSE
        /\ fs = call_ret.fs
        /\ backups = call_ret.backups

\* the keys of a dict
Keys(d) == {d[i][1] : i \in 1..Len(d)}
\* the paths of a list that hold a regular file
RegularFiles(file_paths) == {file_paths[i] : i \in {j \in 1..Len(file_paths) : IsFile(fs, file_paths[j])}}

ClearDone == IF call_ret = NoResult THEN FALSE ELSE call_ret.op = "clear_backups"

\* C22 as stated: once clear_backups has returned, after whatever calls of
\* backup_file, backup_files, restore_file and restore_all, the mapping is
\* empty, no backup file written by this manager is left on disk, and the
\* original files are as they were before the call.
C22_ClearLeavesNoBackup ==
    ClearDone =>
        /\ backups = <<>>
        /\ call_args.created \cap DOMAIN backup_dir = {}
        /\ fs = call_ret.fs

\* what clear_backups does ensure: the mapping is empty and the originals
\* are untouched
C22_ClearEmptiesMapping ==
    ClearDone => (backups = <<>> /\ fs = call_ret.fs)

RestoreAllDone == IF call_ret = NoResult THEN FALSE ELSE call_ret.op = "restore_all"

\* C29 as stated: after any calls of backup_file and backup_files, two
\* distinct originals of the mapping never share a backup path, and so a
\* restore_all that ran through leaves every recorded file whose backup is
\* on disk as it was when it was backed up.
C29_DistinctOriginalsDistinctBackups ==
    /\ \A i \in 1..Len(backups) : \A j \in 1..Len(backups) :
           (backups[i][1] # backups[j][1]) => (backups[i][2] # backups[j][2])
    /\ (RestoreAllDone /\ ~call_ret.raised) =>
           \A i \in 1..Len(backups) :
               (backups[i][2] \in DOMAIN backup_dir) =>
                   fs[backups[i][1]] = call_args.saved[backups[i][1]]

\* C30 as stated: in a session of several commands the mapping of the one
\* RollbackManager is empty whenever the backup step of a command begins
\* (so that a restore_all restores only what was backed up for the failing
\* command).
C30_MappingEmptyAtBackupStep ==
    cli = "backup" => backups = <<>>

(***************************************************************************)
(* executor/denylist_util.py: `add` rewrites denylist.json while another   *)
(* process loads it (specification SpecDenylist)                           *)
(***************************************************************************)
Levels == <<"critical", "high", "medium", "low">>
LevelSet == {Levels[i] : i \in 1..Len(Levels)}
Patterns == {"rm -rf /", "mkfs"}

\* line 14: the table of a missing file
EmptyDenylist == [level \in LevelSet |-> <<>>]

\* the tables of the model: no pattern twice at a level, few patterns
RECURSIVE TotalLen(_, _)
TotalLen(d, i) == IF i > Len(Levels) THEN 0 ELSE Len(d[Levels[i]]) + TotalLen(d, i + 1)
PatternLists == {<<>>} \cup {<<x>> : x \in Patterns}
Denylists == {d \in [LevelSet -> PatternLists] : TotalLen(d, 1) <= 2}

\* json.dump(denylist, f, indent=4): the text, as the pieces it is written in
RECURSIVE DumpLevels(_, _)
DumpLevels(d, i) ==
    IF i > Len(Levels) THEN <<>>
    ELSE (<<Levels[i], "[">> \o d[Levels[i]] \o <<"]">>) \o DumpLevels(d, i + 1)
dumps(d) == <<"{">> \o DumpLevels(d, 1) \o <<"}">>

\* json.load: the table the text stands for; JSONDecodeError for an empty or
\* an incomplete text
loads(text) ==
    IF \E d \in Denylists : dumps(d) = text
    THEN CHOOSE d \in Denylists : dumps(d) = text
    ELSE Raised("JSONDecodeError")

\* load_denylist(denylist_path), lines 10-14, when nothing writes meanwhile
load_denylist(file) == IF file.exists THEN loads(file.text) ELSE EmptyDenylist

\* the file as a process finds it: absent, or saved earlier by save_denylist
SavedDenylists == {EmptyDenylist, [EmptyDenylist EXCEPT !["critical"] = <<"rm -rf /">>]}
DenylistFiles ==
    {[exists |-> FALSE, text |-> <<>>]} \cup {[exists |-> TRUE, text |-> dumps(d)] : d \in SavedDenylists}

DenylistInit ==
    /\ denylist_json \in DenylistFiles
    /\ \E level \in LevelSet : \E pattern \in Patterns :
           adder = [pc |-> "add", level |-> level, pattern |-> pattern,
                    before |-> load_denylist(denylist_json)]
    /\ reader = [pc |-> "load_denylist"]
    /\ callers = [t \in Callers |-> [pc |-> 0]]
    /\ epoch = 0
    /\ log = {}
    /\ config = SafetyChecker_init(NoConfig)
    /\ chk_cmd = ""
    /\ chk_result = NoResult
    /\ RunnerIdle
    /\ RbmIdle
    /\ NoCall
    /\ CliIdle

\* add, line 30: the table is loaded
AddLoad ==
    /\ adder.pc = "add"
    /\ adder' = [pc |-> "loaded", level |-> adder.level, pattern |-> adder.pattern,
                 before |-> adder.before, denylist |-> load_denylist(denylist_json)]
    /\ UNCHANGED <<denylist_json, reader>>

\* add, lines 32-36: a pattern already listed ends the command, a new one is
\* appended
AddAppend ==
    /\ adder.pc = "loaded"
    /\ IF \E i \in 1..Len(adder.denylist[adder.level]) :
              adder.denylist[adder.level][i] = adder.pattern
       THEN adder' = [adder EXCEPT !.pc = "exit"]
       ELSE adder' = [adder EXCEPT !.pc = "save_denylist",
                                   !.denylist[adder.level] = Append(@, adder.pattern)]
    /\ UNCHANGED <<denylist_json, reader>>

\* save_denylist, line 17: open(denylist_path, "w") creates the file or cuts
\* it to nothing
SaveOpen ==
    /\ adder.pc = "save_denylist"
    /\ denylist_json' = [exists |-> TRUE, text |-> <<>>]
    /\ adder' = [pc |-> "json.dump", level |-> adder.level, pattern |-> adder.pattern,
                 before |-> adder.before, denylist |-> adder.denylist,
                 unwritten |-> dumps(adder.denylist)]
    /\ UNCHANGED reader

\* save_denylist, line 18 and the end of the with block: the buffered text
\* reaches the file, all of it at the close or a part of it before
SaveFlush(n) ==
    /\ adder.pc = "json.dump"
    /\ n \in 1..Len(adder.unwritten)
    /\ denylist_json' = [denylist_json EXCEPT !.text = @ \o SubSeq(adder.unwritten, 1, n)]
    /\ adder' = [adder EXCEPT !.unwritten = SubSeq(@, n + 1, Len(@)),
                               !.pc = IF n = Len(adder.unwritten) THEN "exit" ELSE "json.dump"]
    /\ UNCHANGED reader

\* load_denylist, line 10: denylist_path.exists()
ReadExists ==
    /\ reader.pc = "load_denylist"
    /\ reader' = IF denylist_json.exists THEN [pc |-> "json.load"]
                 ELSE [pc |-> "returned", ret |-> EmptyDenylist]
    /\ UNCHANGED <<denylist_json, adder>>

\* load_denylist, lines 11-12: the file is read and parsed
ReadLoad ==
    /\ reader.pc = "json.load"
    /\ reader' = [pc |-> "returned", ret |-> loads(denylist_json.text)]
    /\ UNCHANGED <<denylist_json, adder>>

DenylistNext ==
    \/ AddLoad /\ UNCHANGED <<chkVars, runVars, rbmVars, cliVars, fnVars, callers, epoch, log>>
    \/ AddAppend /\ UNCHANGED <<chkVars, runVars, rbmVars, cliVars, fnVars, callers, epoch, log>>
    \/ SaveOpen /\ UNCHANGED <<chkVars, runVars, rbmVars, cliVars, fnVars, callers, epoch, log>>
    \/ \E n \in 1..Len(dumps(EmptyDenylist)) + 2 :
           SaveFlush(n) /\ UNCHANGED <<chkVars, runVars, rbmVars, cliVars, fnVars, callers, epoch, log>>
    \/ ReadExists /\ UNCHANGED <<chkVars, runVars, rbmVars, cliVars, fnVars, callers, epoch, log>>
    \/ ReadLoad /\ UNCHANGED <<chkVars, runVars, rbmVars, cliVars, fnVars, callers, epoch, log>>

SpecDenylist == DenylistInit /\ [][DenylistNext]_vars

\* the table after the add
AfterAdd ==
    IF \E i \in 1..Len(adder.before[adder.level]) : adder.before[adder.level][i] = adder.pattern
    THEN adder.before
    ELSE [adder.before EXCEPT ![adder.level] = Append(@, adder.pattern)]

\* C25 as stated: a load_denylist running next to an add on the same file
\* returns the complete table from before the add or the complete table
\* after it, under every interleaving.
C25_ReaderSeesCompleteTable ==
    reader.pc = "returned" => reader.ret \in {adder.before, AfterAdd}

(***************************************************************************)
(* _terminate_process called more than once on one process                 *)
(***************************************************************************)
\* the first call comes from the handler of execute (lines 152-153); a caller
\* that kept the Popen object may call again.  call_args counts the calls and
\* keeps what poll() saw and the signals sent before the call.
TerminateInit ==
    /\ config = _get_default_config
    /\ chk_cmd = ""
    /\ chk_result = NoResult
    /\ rpc = "call"
    /\ process = NoProcess
    /\ current_process = FALSE
    /\ monitor = NoMonitor
    /\ signals = <<>>
    /\ run_result = NoRun
    /\ RbmIdle
    /\ ThreadsIdle
    /\ call_args = [invocations |-> 0, polled |-> "none", before |-> <<>>]
    /\ call_ret = NoResult
    /\ CliIdle

\* os.killpg raises (EPERM: the command runs under another user, as with
\* sudo); `except Exception` of lines 339-340 logs it and the call returns
KillpgRaises ==
    /\ rpc = "terminating"
    /\ process.state = "running"
    /\ rpc' = "returned"
    /\ run_result' = InterruptedResult
    /\ call_ret' = [logged |-> "Error terminating process"]
    /\ UNCHANGED <<process, current_process, monitor, signals>>

\* _terminate_process is called again on the same Popen object
TerminateAgain ==
    /\ rpc = "returned"
    /\ call_args.invocations < MaxCalls
    /\ rpc' = "terminating"
    /\ call_args' = [call_args EXCEPT !.invocations = @ + 1]
    /\ UNCHANGED <<process, current_process, monitor, signals, run_result, call_ret>>

Polled == [call_args EXCEPT !.polled = process.state, !.before = signals]

TerminateNext ==
    \/ Spawn /\ UNCHANGED <<chkVars, thrVars, fnVars, rbmVars, cliVars>>
    \/ ProcessExits /\ UNCHANGED <<chkVars, thrVars, fnVars, rbmVars, cliVars>>
    \/ InterruptBeforeWait /\ call_args' = [call_args EXCEPT !.invocations = @ + 1]
          /\ UNCHANGED <<chkVars, thrVars, call_ret, rbmVars, cliVars>>
    \/ TerminateSignal /\ call_args' = Polled
          /\ UNCHANGED <<chkVars, thrVars, call_ret, rbmVars, cliVars>>
    \/ KillpgRaises /\ call_args' = Polled
          /\ UNCHANGED <<chkVars, thrVars, rbmVars, cliVars>>
    \/ GraceWaitReturns /\ UNCHANGED <<chkVars, thrVars, fnVars, rbmVars, cliVars>>
    \/ GraceExpires /\ UNCHANGED <<chkVars, thrVars, fnVars, rbmVars, cliVars>>
    \/ TerminateAgain /\ UNCHANGED <<chkVars, thrVars, rbmVars, cliVars>>

SpecTerminate == TerminateInit /\ [][TerminateNext]_vars

TerminateReturned == rpc = "returned" /\ call_args.invocations > 0

\* C27: _terminate_process sends SIGTERM to the group only after poll() found
\* the process running, sends SIGKILL only after that SIGTERM and a grace
\* wait that ended with the process still running, and returns from a call
\* that signalled only once the process has been waited for; a call that
\* finds the process exited sends nothing and only collects it, so a call
\* after a completed shutdown changes nothing.
C27_TwoPhaseShutdown ==
    /\ [][signals' # signals =>
            \/ /\ signals' = Append(signals, "SIGTERM")
               /\ rpc = "terminating" /\ process.state = "running"
               /\ rpc' = "grace"
            \/ /\ signals' = Append(signals, "SIGKILL")
               /\ rpc = "grace" /\ process.state = "running"
               /\ signals # <<>> /\ signals[Len(signals)] = "SIGTERM"
               /\ rpc' = "returned" /\ process'.state = "reaped"]_vars
    /\ []((TerminateReturned /\ signals # call_args.before) => process.state = "reaped")
    /\ [][(rpc = "terminating" /\ process.state # "running" /\ rpc' # rpc) =>
            /\ rpc' = "returned"
            /\ signals' = signals
            /\ process' = [process EXCEPT !.state = "reaped"]]_vars
    /\ []((TerminateReturned /\ call_args.polled \in {"exited", "reaped"}) =>
            signals = call_args.before)

\* a two-phase shutdown, then a second call that changed nothing
C27_Witness ==
    /\ TerminateReturned
    /\ call_args.invocations = 2
    /\ call_args.polled = "reaped"
    /\ signals = <<"SIGTERM", "SIGKILL">>

\* the configuration with every option that config leaves out taken from
\* the defaults
WithDefaults(cfg) ==
    [k \in DOMAIN _get_default_config \cup DOMAIN cfg |->
        IF k \in DOMAIN cfg THEN cfg[k] ELSE _get_default_config[k]]

\* C28 as stated: a checker built from a configuration that sets only some
\* options decides every command as a checker would whose missing options
\* have their default values; in particular check_command returns a verdict
\* and does not fail on a missing option.
C28_PartialConfigUsesDefaults ==
    (ChkDone /\ config \in PartialConfigs) =>
        /\ ~IsRaise(chk_result)
        /\ chk_result = check_command(chk_cmd, WithDefaults(config))

Init == CliInit
Next == CliNext
Spec == Init /\ [][Next]_vars
====
